---- MODULE Spec2Model ----
(***************************************************************************)
(* Gesture classification and temporal confirmation engine of gest-ai:     *)
(* the useHandDetection hook (processResults, startDetection,              *)
(* stopDetection, the stability and cooldown timers), the GestureClassifier *)
(* it calls, and the AudioClapDetector it attaches.                         *)
(*                                                                         *)
(* Units.  Landmark coordinates are integers in hundredths of the          *)
(* normalized image unit (0.12 is 12).  Times are milliseconds.            *)
(* Math.sqrt is not computed: a distance is carried by its square, and     *)
(* every comparison of the code is made on squares (both sides are         *)
(* non-negative, so the order is the same).  A JavaScript NaN is the value *)
(* NaN, and every comparison with it is FALSE, as in JavaScript.           *)
(***************************************************************************)
EXTENDS Integers, Sequences, FiniteSets, TLC

VARIABLES
    now,               \* Date.now(), ms
    isDetecting,       \* useState isDetecting
    cameraRunning,     \* a started Camera is feeding frames to hands.send
    lastGestureRef,    \* lastGestureRef.current ("" = none)
    gestureTimeoutRef, \* the stability timer of gestureTimeoutRef.current
    resetTimers,       \* due times of the pending cooldown-reset timers
    historyRef,        \* historyRef.current: label -> samples
    detectors,         \* every AudioClapDetector constructed so far
    audioClapRef,      \* audioClapRef.current: an index of detectors, 0 = null
    lastAudioClapRef,  \* lastAudioClapRef.current (0 = never)
    delivered,         \* the Gesture Events handed to onGestureDetected
    lastFrame,         \* what the last processResults call did
    probe,             \* the last direct call of the two classifiers
    obs,               \* observations on the frames processed so far
    budget,            \* what is left of the bounds of the run
    app,               \* App: the state of the latest render
    db                 \* StorageService: the mappings store and its calls

vars == <<now, isDetecting, cameraRunning, lastGestureRef, gestureTimeoutRef,
          resetTimers, historyRef, detectors, audioClapRef, lastAudioClapRef,
          delivered, lastFrame, probe, obs, budget, app, db>>

Undef == "undefined"
\* A JavaScript number: a value, or NaN
Num(n) == [nan |-> FALSE, v |-> n]
NaN == [nan |-> TRUE, v |-> 0]

\* A HandLandmark[] value: null, or an array of landmarks (pts)
NullHand == [null |-> TRUE, pts |-> <<>>]
Arr(points) == [null |-> FALSE, pts |-> points]
Length(lm) == Len(lm.pts)

\* A GestureDetection | null value: null is the record with the empty label
NullGesture == [gesture |-> "", confidence |-> 0, timestamp |-> 0]
Gesture(g, c, t) == [gesture |-> g, confidence |-> c, timestamp |-> t]

----------------------------------------------------------------------------
(* Program constants *)

StabilityMs == 150
CooldownMs == 1800
AudioWindowMs == 800
AudioCooldownMs == 300
HistoryCap == 30
LandmarkCount == 21
ClapPrevOffset == 5
ClapCloseDelta == 12
ClapPalmDist == 12
NamastePalmDist == 14
NamasteWristDist == 18
NamasteTipDist == 8
CrossMargin == 2
RaiseMargin == 2
WaveAmplitude == 6
WaveReversals == 2
RaiseHandY == 38
RaiseHandWindow == 6
RaiseHandMin == 4
HalfFrame == 50
PointTolerance == 10
PointMinLen == 3
PointMaxLen == 50

(* Bounds of the model *)

MaxFrames == 4
MaxHandFrames == 6
MaxWaveFrames == 7
MaxStopFrames == 3
MaxRingFrames == 31
MaxRingTicks == 2
MaxAbsenceFrames == 5
MaxAbsenceStarts == 2
MaxAbsenceTicks == 2
MaxAudioFrames == 3
MaxLabelFrames == 3
MaxAppFrames == 2
MaxMappings == 2
MaxWaiting == 2
MaxDetectorStarts == 3
MaxDetectorTicks == 6
MaxAudioTicks == 2
MaxTicks == 3
MaxStarts == 1
MaxStops == 1

\* the grain of the clock
TickMs == StabilityMs \div 2

----------------------------------------------------------------------------
(* Geometric primitives: GestureClassifier *)

Sq(n) == n * n
Abs(n) == IF n < 0 THEN -n ELSE n
Max(a, b) == IF a > b THEN a ELSE b

\* lm[i]: undefined past the end of the array
Defined(lm, i) == i < Length(lm)
At(lm, i) == lm.pts[i + 1]

\* p.f is undefined when the object has no such property
Has(p, f) == f \in DOMAIN p

\* Math.sqrt(dx^2 + dy^2 + dz^2), carried by its square; a missing
\* coordinate is undefined, undefined - undefined is NaN, and NaN spreads.
calculateDistance(point1, point2) ==
    IF \A f \in {"x", "y", "z"} : Has(point1, f) /\ Has(point2, f)
    THEN Num(Sq(point1.x - point2.x) + Sq(point1.y - point2.y)
             + Sq(point1.z - point2.z))
    ELSE NaN

\* The public helper: it casts its arguments and calls calculateDistance.
distance(a, b) == calculateDistance(a, b)

\* d1 < d2 and d1 > d2 for two distances
NumLt(d1, d2) == ~d1.nan /\ ~d2.nan /\ d1.v < d2.v
NumGt(d1, d2) == NumLt(d2, d1)

\* d < c and d > c, for a distance d and a constant c >= 0
DistLt(d, c) == ~d.nan /\ d.v < Sq(c)
DistGt(d, c) == ~d.nan /\ d.v > Sq(c)

\* prev - cur > delta, on squares: with A = P - Q - delta^2,
\* sqrt(P) > sqrt(Q) + delta  iff  A > 2*delta*sqrt(Q)  iff  A > 0 and
\* A^2 > 4*delta^2*Q.
DiffGt(prev, cur, delta) ==
    /\ ~prev.nan
    /\ ~cur.nan
    /\ LET A == prev.v - cur.v - Sq(delta)
       IN  A > 0 /\ Sq(A) > 4 * Sq(delta) * cur.v

isFingerExtended(landmarks, fingerTips, fingerPips) ==
    [k \in 1..Len(fingerTips) |->
        At(landmarks, fingerTips[k]).y < At(landmarks, fingerPips[k]).y]

isThumbExtended(landmarks) ==
    NumGt(calculateDistance(At(landmarks, 0), At(landmarks, 4)),
          calculateDistance(At(landmarks, 0), At(landmarks, 2)))

Count(bs) == Cardinality({k \in DOMAIN bs : bs[k]})

Dot(u, v) == u.x * v.x + u.y * v.y + u.z * v.z
Vec(p, q) == [x |-> p.x - q.x, y |-> p.y - q.y, z |-> p.z - q.z]

\* The Pointing rule once fingersExtended[0] && extendedCount === 1 holds
PointingRule(landmarks, t) ==
    LET indexTip == At(landmarks, 8)
        indexPip == At(landmarks, 6)
        wrist == At(landmarks, 0)
        indexExtended == indexTip.y < indexPip.y + PointTolerance
        middleExtended == At(landmarks, 12).y < At(landmarks, 10).y + PointTolerance
        ringExtended == At(landmarks, 16).y < At(landmarks, 14).y + PointTolerance
        pinkyExtended == At(landmarks, 20).y < At(landmarks, 18).y + PointTolerance
        otherFingersMostlyCurled == ~(middleExtended /\ ringExtended /\ pinkyExtended)
        indexLength == calculateDistance(wrist, indexTip)
    IN  IF ~indexExtended THEN NullGesture
        ELSE IF ~otherFingersMostlyCurled THEN NullGesture
        ELSE IF DistLt(indexLength, PointMinLen) \/ DistGt(indexLength, PointMaxLen)
             THEN NullGesture
        ELSE Gesture("Pointing", 90, t)

\* The Victory rule once its finger pattern holds.  0.98 is compared as
\* 98/100 on squares; 0.008 and 0.005 lie below the grid, so the spread
\* tests are d^2 < 0.64 and |dx| < 0.5; the angle bounds are cos^2(45) = 1/2
\* and cos^2(125) = 0.329.
VictoryRule(landmarks, t) ==
    LET indexTip == At(landmarks, 8)
        middleTip == At(landmarks, 12)
        indexPip == At(landmarks, 6)
        middlePip == At(landmarks, 10)
        wrist == At(landmarks, 0)
        indexMcp == At(landmarks, 5)
        middleMcp == At(landmarks, 9)
        indexDist == calculateDistance(indexTip, indexPip)
        indexSegmentLen == calculateDistance(indexMcp, indexPip)
        indexExtended == Sq(100) * indexDist.v > Sq(98) * indexSegmentLen.v
        middleDist == calculateDistance(middleTip, middlePip)
        middleSegmentLen == calculateDistance(middleMcp, middlePip)
        middleExtended == Sq(100) * middleDist.v > Sq(98) * middleSegmentLen.v
        wristBelow == wrist.y > Max(indexTip.y, middleTip.y) - 2
        palmFacing == Abs(indexTip.z) < 12 /\ Abs(middleTip.z) < 12
        vSpread == calculateDistance(indexTip, middleTip)
        indexLength == calculateDistance(wrist, indexTip)
        middleLength == calculateDistance(wrist, middleTip)
        indexVec == Vec(indexTip, indexMcp)
        middleVec == Vec(middleTip, middleMcp)
        I == Dot(indexVec, indexVec)
        M == Dot(middleVec, middleVec)
        D == Dot(indexVec, middleVec)
        angleBelow45 == D > 0 /\ 2 * Sq(D) > I * M
        angleAbove125 == D < 0 /\ 1000 * Sq(D) > 329 * I * M
        xDiff == Abs(indexTip.x - middleTip.x)
        isRightHand == wrist.x > HalfFrame
        correctOrientation == IF isRightHand THEN indexTip.x < middleTip.x
                                             ELSE indexTip.x > middleTip.x
    IN  IF ~indexExtended \/ ~middleExtended THEN NullGesture
        ELSE IF ~wristBelow THEN NullGesture
        ELSE IF ~palmFacing THEN NullGesture
        ELSE IF 25 * vSpread.v < 16 THEN NullGesture
        ELSE IF DistLt(indexLength, 8) \/ DistLt(middleLength, 8)
                \/ DistGt(indexLength, 38) \/ DistGt(middleLength, 38)
             THEN NullGesture
        ELSE IF I = 0 \/ M = 0 THEN NullGesture
        ELSE IF angleBelow45 \/ angleAbove125 THEN NullGesture
        ELSE IF 2 * xDiff < 1 THEN NullGesture
        ELSE IF ~correctOrientation THEN NullGesture
        ELSE Gesture("Victory", 95, t)

\* a length check that lets the longer arrays through
InvalidShort(landmarks) == landmarks.null \/ Length(landmarks) < LandmarkCount
\* !landmarks || landmarks.length !== 21
InvalidLandmarks(landmarks) == landmarks.null \/ Length(landmarks) # LandmarkCount

\* the wrist strictly right of the middle of the frame
RightOfMiddle(landmarks) == At(landmarks, 0).x > HalfFrame

\* landmarks[0].x >= 0.5 of the Open Palm rule
OnRightHalf(landmarks) == At(landmarks, 0).x >= HalfFrame

\* GestureClassifier.classifyGesture; t is Date.now()
classifyGesture(landmarks, t) ==
    IF InvalidLandmarks(landmarks) THEN NullGesture
    ELSE
    LET fingerTips == <<8, 12, 16, 20>>
        fingerPips == <<6, 10, 14, 18>>
        fingersExtended == isFingerExtended(landmarks, fingerTips, fingerPips)
        thumbExtended == isThumbExtended(landmarks)
        extendedCount == Count(fingersExtended) + (IF thumbExtended THEN 1 ELSE 0)
    IN  IF thumbExtended /\ extendedCount = 1
            THEN Gesture("Thumbs-Up", 90, t)
        ELSE IF fingersExtended[1] /\ extendedCount = 1
            THEN PointingRule(landmarks, t)
        ELSE IF fingersExtended[1] /\ fingersExtended[2] /\ ~fingersExtended[3]
                /\ ~fingersExtended[4] /\ ~thumbExtended /\ extendedCount = 2
            THEN VictoryRule(landmarks, t)
        ELSE IF extendedCount = 5 /\ OnRightHalf(landmarks)
            THEN Gesture("Open Palm", 95, t)
        ELSE IF extendedCount = 5 /\ At(landmarks, 0).x < HalfFrame
            THEN Gesture("Stop", 95, t)
        ELSE IF extendedCount >= 4
            THEN Gesture("Wave", 80, t)
        ELSE NullGesture

\* A thrown TypeError, where a GestureDetection | null was expected
Thrown == [gesture |-> "TypeError", confidence |-> 0, timestamp |-> 0]

\* GestureClassifier.classifyTwoHandGesture; handedness is the optional
\* third argument: [present |-> BOOLEAN, labels |-> the label of each entry]
classifyTwoHandGesture(leftHand, rightHand, handedness, t) ==
    IF leftHand.null \/ rightHand.null \/ Length(leftHand) # LandmarkCount
       \/ Length(rightHand) # LandmarkCount
    THEN NullGesture
    ELSE
    LET tips == <<8, 12, 16, 20>>
        pips == <<6, 10, 14, 18>>
        leftFingersExtended == isFingerExtended(leftHand, tips, pips)
        rightFingersExtended == isFingerExtended(rightHand, tips, pips)
        leftPinkyOnly == leftFingersExtended[4] /\ ~leftFingersExtended[1]
                         /\ ~leftFingersExtended[2] /\ ~leftFingersExtended[3]
        rightPinkyOnly == rightFingersExtended[4] /\ ~rightFingersExtended[1]
                          /\ ~rightFingersExtended[2] /\ ~rightFingersExtended[3]
        leftWrist == At(leftHand, 0)
        rightWrist == At(rightHand, 0)
        pinkyDistance == calculateDistance(At(leftHand, 20), At(rightHand, 20))
        wristDistance == calculateDistance(leftWrist, rightWrist)
        heightDifference == Abs(leftWrist.y - rightWrist.y)
        wristCrossDistance == Abs(leftWrist.x - rightWrist.x)
        verticalAlignment == Abs(leftWrist.y - rightWrist.y) < 15
    IN  IF ~leftPinkyOnly \/ ~rightPinkyOnly THEN NullGesture
        ELSE IF DistLt(pinkyDistance, 10) /\ DistLt(wristDistance, 20)
                /\ heightDifference < 10
            THEN Gesture("Namaste", 90, t)
        ELSE IF wristCrossDistance < 30 /\ verticalAlignment /\ handedness.present
            THEN IF Len(handedness.labels) < 2 THEN Thrown
                 ELSE IF handedness.labels[1] = "Right" /\ handedness.labels[2] = "Left"
                      THEN Gesture("Cross Hands", 85, t)
                      ELSE NullGesture
        ELSE NullGesture

----------------------------------------------------------------------------
(* GestureClassifier, the revision with Fist, Backhand and Clap *)

\* the largest r with r * r <= n, for n between Sq(lo) and Sq(hi + 1) - 1
RECURSIVE RootBetween(_, _, _)
RootBetween(n, lo, hi) ==
    IF lo >= hi THEN lo
    ELSE LET mid == (lo + hi + 1) \div 2
         IN  IF Sq(mid) <= n THEN RootBetween(n, mid, hi)
             ELSE RootBetween(n, lo, mid - 1)

\* Math.sqrt on the grid: roots are kept to 1/RootScale of a grid unit
RootScale == 100
MaxRoot == 46340
Sqrt(n) == RootBetween(n * Sq(RootScale), 0, MaxRoot)

RECURSIVE SumOf(_)
SumOf(xs) == IF Len(xs) = 0 THEN 0 ELSE Head(xs) + SumOf(Tail(xs))

\* computePalmNormalFrom and the computePalmNormal of classifyGesture: the
\* cross product of wrist->index_mcp and wrist->pinky_mcp, held without the
\* division by its length; sq is the square of that length.  A length of 0
\* is replaced by 1 in the code, and the normal is then the zero vector.
computePalmNormalFrom(landmarks) ==
    LET a == At(landmarks, 0)
        b == At(landmarks, 5)
        c == At(landmarks, 17)
        ab == Vec(b, a)
        ac == Vec(c, a)
        nx == ab.y * ac.z - ab.z * ac.y
        ny == ab.z * ac.x - ab.x * ac.z
        nz == ab.x * ac.y - ab.y * ac.x
    IN  [x |-> nx, y |-> ny, z |-> nz, sq |-> Sq(nx) + Sq(ny) + Sq(nz)]

\* the palm normal pointing at the camera's side by more than 0.3
FacingToward(n) == n.z > 0 /\ 100 * Sq(n.z) > 9 * n.sq

\* palmNormal.z < -0.3
FacingAway(n) == n.z < 0 /\ 100 * Sq(n.z) > 9 * n.sq

\* normalsDot < -0.2, the two lengths rounded down to the grid
FacingEachOther(m, n) ==
    LET d == Dot(m, n)
    IN  d < 0 /\ 5 * (-d) > RootBetween(m.sq, 0, MaxRoot) * RootBetween(n.sq, 0, MaxRoot)

\* a hand width that is not measured: the one of a hand 0.12 wide
handWidthFixed(landmarks) == Sq(12)

\* the square of handWidth: the distance of index_mcp and pinky_mcp, or 1
\* when that distance is 0
handWidth(landmarks) ==
    LET width == calculateDistance(At(landmarks, 5), At(landmarks, 17)).v
    IN  IF width = 0 THEN Sq(100) ELSE width

\* The "Fist detection (robust)" block: at least 4 of the 5 tips at or below
\* their joint (within 0.01), the mean tip-to-palm distance below 0.6 hand
\* widths and the largest tip-to-tip distance below 0.45 hand widths; the
\* hand width is the distance of index_mcp and pinky_mcp, or 1 when that is 0.
FistRule(landmarks) ==
    LET palm == At(landmarks, 9)
        tipIndicesAll == <<4, 8, 12, 16, 20>>
        pipIndices == <<2, 6, 10, 14, 18>>
        handWidthSq == handWidth(landmarks)
        tipDistances == [k \in 1..5 |->
            Sqrt(calculateDistance(At(landmarks, tipIndicesAll[k]), palm).v)]
        spreads == {calculateDistance(At(landmarks, tipIndicesAll[i]),
                                      At(landmarks, tipIndicesAll[j])).v :
                        i \in 1..5, j \in 1..5}
        maxTipSpreadSq == CHOOSE m \in spreads : \A n \in spreads : m >= n
        curledCount == Cardinality({k \in 1..5 :
            At(landmarks, tipIndicesAll[k]).y >= At(landmarks, pipIndices[k]).y - 1})
    IN  /\ curledCount >= 4
        /\ SumOf(tipDistances) < Sqrt(9 * handWidthSq)
        /\ 400 * maxTipSpreadSq < 81 * handWidthSq

\* GestureClassifier.classifyGesture of the revision
classifyGesture005(landmarks, t) ==
    IF InvalidLandmarks(landmarks) THEN NullGesture
    ELSE
    LET fingerTips == <<8, 12, 16, 20>>
        fingerPips == <<6, 10, 14, 18>>
        fingersExtended == isFingerExtended(landmarks, fingerTips, fingerPips)
        thumbExtended == isThumbExtended(landmarks)
        extendedCount == Count(fingersExtended) + (IF thumbExtended THEN 1 ELSE 0)
        palmNormal == computePalmNormalFrom(landmarks)
    IN  IF FistRule(landmarks)
            THEN Gesture("Fist", 96, t)
        ELSE IF thumbExtended /\ extendedCount = 1
            THEN Gesture("Thumbs-Up", 90, t)
        ELSE IF fingersExtended[1] /\ extendedCount = 1
            THEN Gesture("Pointing", 90, t)
        ELSE IF fingersExtended[1] /\ fingersExtended[2] /\ extendedCount = 2
            THEN Gesture("Victory", 90, t)
        ELSE IF extendedCount = 5
            THEN IF FacingAway(palmNormal) THEN Gesture("Backhand", 90, t)
                 ELSE Gesture("Open Palm", 95, t)
        ELSE IF extendedCount >= 4
            THEN Gesture("Wave", 80, t)
        ELSE NullGesture

\* the two-hand rules of the revision, in the order of the code: Clap
\* (palmDistance < 0.095), Namaste, Cross Hands, Raise Both Hands
ClapMatch005(leftHand, rightHand) ==
    4 * calculateDistance(At(leftHand, 9), At(rightHand, 9)).v < Sq(19)

NamasteMatch005(leftHand, rightHand) ==
    /\ DistLt(calculateDistance(At(leftHand, 9), At(rightHand, 9)), 12)
    /\ DistLt(calculateDistance(At(leftHand, 0), At(rightHand, 0)), 14)
    /\ DistLt(calculateDistance(At(leftHand, 12), At(rightHand, 12)), 6)
    /\ FacingEachOther(computePalmNormalFrom(leftHand),
                       computePalmNormalFrom(rightHand))

CrossMatch005(leftHand, rightHand) == At(leftHand, 0).x > At(rightHand, 0).x

RaiseMatch005(leftHand, rightHand) ==
    /\ At(leftHand, 0).y > At(leftHand, 9).y
    /\ At(rightHand, 0).y > At(rightHand, 9).y

\* the rules with Namaste tried before Clap
classifyNamasteFirst005(leftHand, rightHand, t) ==
    IF leftHand.null \/ rightHand.null \/ Length(leftHand) # LandmarkCount
       \/ Length(rightHand) # LandmarkCount
    THEN NullGesture
    ELSE IF NamasteMatch005(leftHand, rightHand) THEN Gesture("Namaste", 96, t)
    ELSE IF ClapMatch005(leftHand, rightHand) THEN Gesture("Clap", 92, t)
    ELSE IF CrossMatch005(leftHand, rightHand) THEN Gesture("Cross Hands", 88, t)
    ELSE IF RaiseMatch005(leftHand, rightHand)
        THEN Gesture("Raise Both Hands", 80, t)
    ELSE NullGesture

\* GestureClassifier.classifyTwoHandGesture of the revision
classifyTwoHandGesture005(leftHand, rightHand, t) ==
    IF leftHand.null \/ rightHand.null \/ Length(leftHand) # LandmarkCount
       \/ Length(rightHand) # LandmarkCount
    THEN NullGesture
    ELSE IF ClapMatch005(leftHand, rightHand) THEN Gesture("Clap", 92, t)
    ELSE IF NamasteMatch005(leftHand, rightHand) THEN Gesture("Namaste", 96, t)
    ELSE IF CrossMatch005(leftHand, rightHand) THEN Gesture("Cross Hands", 88, t)
    ELSE IF RaiseMatch005(leftHand, rightHand)
        THEN Gesture("Raise Both Hands", 80, t)
    ELSE NullGesture

----------------------------------------------------------------------------
(* useHandDetection: processResults up to the debounce *)

LabelKeys == {"Left", "Right", "Hand0", "Hand1"}
HandName(idx) == IF idx = 0 THEN "Hand0" ELSE "Hand1"

\* obj[key] = val on an object held as its entries in insertion order
Put(obj, key, val) ==
    IF \E k \in 1..Len(obj) : obj[k].label = key
    THEN [k \in 1..Len(obj) |->
            IF obj[k].label = key THEN [label |-> key, lm |-> val] ELSE obj[k]]
    ELSE Append(obj, [label |-> key, lm |-> val])

\* the pairing of landmarks with handedness labels
RECURSIVE PairFrom(_, _, _)
PairFrom(results, idx, obj) ==
    LET hs == results.multiHandLandmarks
        hd == results.multiHandedness
        paired == hd.present /\ Len(hs) = Len(hd.labels)
        label == IF paired /\ hd.labels[idx + 1] # "" THEN hd.labels[idx + 1]
                 ELSE HandName(idx)
    IN  IF idx >= Len(hs) THEN obj
        ELSE PairFrom(results, idx + 1, Put(obj, label, hs[idx + 1]))

handsByLabel(results) == PairFrom(results, 0, <<>>)

PalmPts == <<5, 9, 13, 17>>
PalmScale == Len(PalmPts)

\* palmCenter(lm), held as the sum of the four knuckles, that is
\* PalmScale times the mean, which keeps it on the integer grid; palm
\* distances are compared with their thresholds scaled alike.
palmCenter(lm) ==
    [x |-> At(lm, 5).x + At(lm, 9).x + At(lm, 13).x + At(lm, 17).x,
     y |-> At(lm, 5).y + At(lm, 9).y + At(lm, 13).y + At(lm, 17).y]

\* lm[0].x and palmCenter(lm) read lm[0], lm[5], lm[9], lm[13], lm[17]:
\* reading a property of null or undefined throws
CanSample(lm) ==
    ~lm.null /\ Defined(lm, 0) /\ \A k \in 1..Len(PalmPts) : Defined(lm, PalmPts[k])

\* a full history that keeps its oldest sample and drops the new one
PushKeepingOldest(samples, s) ==
    IF Len(samples) >= HistoryCap THEN samples ELSE Append(samples, s)

\* push(sample), then shift() when the length exceeds 30
Push(samples, s) ==
    LET a == Append(samples, s)
    IN  IF Len(a) > HistoryCap THEN Tail(a) ELSE a

\* "update histories", were the histories of the labels a frame does not
\* hold emptied
RECURSIVE UpdateObservedOnly(_, _, _, _)
UpdateObservedOnly(hist, entries, k, t) ==
    IF k > Len(entries) THEN [hist |-> hist, threw |-> FALSE]
    ELSE LET lm == entries[k].lm
             label == entries[k].label
             held == {entries[j].label : j \in 1..Len(entries)}
             h == IF k = 1
                  THEN [l \in DOMAIN hist |->
                            IF l \in held THEN hist[l] ELSE <<>>]
                  ELSE hist
         IN  IF ~CanSample(lm) THEN [hist |-> h, threw |-> TRUE]
             ELSE UpdateObservedOnly(
                    [h EXCEPT ![label] =
                        Push(@, [ts |-> t,
                                 wrist |-> [x |-> At(lm, 0).x, y |-> At(lm, 0).y],
                                 palmCenter |-> palmCenter(lm)])],
                    entries, k + 1, t)

\* "update histories": the forEach stops at the first entry that throws,
\* the samples pushed before it stay
RECURSIVE UpdateHistories(_, _, _, _)
UpdateHistories(hist, entries, k, t) ==
    IF k > Len(entries) THEN [hist |-> hist, threw |-> FALSE]
    ELSE LET lm == entries[k].lm
             label == entries[k].label
         IN  IF ~CanSample(lm) THEN [hist |-> hist, threw |-> TRUE]
             ELSE UpdateHistories(
                    [hist EXCEPT ![label] =
                        Push(@, [ts |-> t,
                                 wrist |-> [x |-> At(lm, 0).x, y |-> At(lm, 0).y],
                                 palmCenter |-> palmCenter(lm)])],
                    entries, k + 1, t)

\* The two-hand rules of processResults (labels.length === 2): Clap,
\* Namaste, Cross Hands, Raise Both Hands, each tried only when no earlier
\* one set detectedGesture.  hist is the history already updated.
TwoHandRules(entries, hist, t, audioRef, lastAudio) ==
    LET la == entries[1].label
        lb == entries[2].label
        a == entries[1].lm
        b == entries[2].lm
        aPalm == palmCenter(a)
        bPalm == palmCenter(b)
        palmDist == distance(aPalm, bPalm)
        ah == hist[la]
        bh == hist[lb]
        hasPrev == Len(ah) >= ClapPrevOffset /\ Len(bh) >= ClapPrevOffset
        prevDist == distance(ah[Len(ah) - ClapPrevOffset + 1].palmCenter,
                             bh[Len(bh) - ClapPrevOffset + 1].palmCenter)
        audioConfirm == lastAudio # 0 /\ (t - lastAudio) < AudioWindowMs
        clap == /\ hasPrev
                /\ DiffGt(prevDist, palmDist, PalmScale * ClapCloseDelta)
                /\ DistLt(palmDist, PalmScale * ClapPalmDist)
                /\ (audioConfirm \/ audioRef = 0)
        wristDist == distance(At(a, 0), At(b, 0))
        tipDist == distance(At(a, 12), At(b, 12))
        namaste == /\ DistLt(palmDist, PalmScale * NamastePalmDist)
                   /\ DistLt(wristDist, NamasteWristDist)
                   /\ DistLt(tipDist, NamasteTipDist)
        cross == At(a, 0).x > At(b, 0).x + CrossMargin
        aRaised == At(a, 0).y < At(a, 9).y - RaiseMargin
        bRaised == At(b, 0).y < At(b, 9).y - RaiseMargin
    IN  IF clap THEN Gesture("Clap", 97, t)
        ELSE IF namaste THEN Gesture("Namaste", 95, t)
        ELSE IF cross THEN Gesture("Cross Hands", 90, t)
        ELSE IF aRaised /\ bRaised THEN Gesture("Raise Both Hands", 90, t)
        ELSE NullGesture

\* the direction changes of every second sample only
ReversalsSkipping(xs) ==
    Cardinality({i \in 5..Len(xs) :
        (xs[i] - xs[i - 2]) * (xs[i - 2] - xs[i - 4]) < 0})

\* the number of direction reversals of xs, and its peak-to-peak amplitude
Reversals(xs) ==
    Cardinality({i \in 3..Len(xs) :
        (xs[i] - xs[i - 1]) * (xs[i - 1] - xs[i - 2]) < 0})

Amplitude(xs) ==
    IF Len(xs) = 0 THEN 0
    ELSE LET S == {xs[i] : i \in 1..Len(xs)}
         IN  (CHOOSE m \in S : \A n \in S : m >= n)
             - (CHOOSE m \in S : \A n \in S : m <= n)

LastN(samples, n) ==
    IF Len(samples) <= n THEN samples
    ELSE SubSeq(samples, Len(samples) - n + 1, Len(samples))

\* enough samples, and the newest of them high
sustainedLatest(samples) ==
    /\ Len(samples) >= RaiseHandMin
    /\ samples[Len(samples)].wrist.y < RaiseHandY

\* sustainedHigh: at least 4 of the last 6 samples exist and all of them
\* have the wrist above y = 0.38
sustainedHigh(samples) ==
    LET recent == LastN(samples, RaiseHandWindow)
    IN  /\ Len(recent) >= RaiseHandMin
        /\ \A i \in 1..Len(recent) : recent[i].wrist.y < RaiseHandY

\* One pass of the single-hand loop for the entry (label, lm)
SingleHand(lm, samples, t) ==
    LET staticGuess == classifyGesture(lm, t)
        xs == [i \in 1..Len(samples) |-> samples[i].wrist.x]
    IN  IF staticGuess.gesture = "Open Palm"
              /\ Reversals(xs) >= WaveReversals /\ Amplitude(xs) > WaveAmplitude
            THEN Gesture("Wave", 92, t)
        ELSE IF staticGuess.gesture = "Open Palm" /\ sustainedHigh(samples)
            THEN Gesture("Raise Hand", 90, t)
        ELSE staticGuess

\* the loop that looks at the first entry only
SingleHandFirst(entries, hist, k, t) ==
    IF Len(entries) = 0 THEN NullGesture
    ELSE SingleHand(entries[1].lm, hist[entries[1].label], t)

\* "Single hand gestures and wave": the first entry that yields a gesture
RECURSIVE SingleHandLoop(_, _, _, _)
SingleHandLoop(entries, hist, k, t) ==
    IF k > Len(entries) THEN NullGesture
    ELSE LET g == SingleHand(entries[k].lm, hist[entries[k].label], t)
         IN  IF g # NullGesture THEN g
             ELSE SingleHandLoop(entries, hist, k + 1, t)

\* processResults from its first line to detectedGesture:
\* [ran: the early return was not taken, threw, hist, detected]
Detect(results, hist, t, audioRef, lastAudio) ==
    IF Len(results.multiHandLandmarks) = 0
    THEN [ran |-> FALSE, threw |-> FALSE, hist |-> hist, detected |-> NullGesture]
    ELSE
    LET entries == handsByLabel(results)
        upd == UpdateHistories(hist, entries, 1, t)
        two == IF Len(entries) = 2
               THEN TwoHandRules(entries, upd.hist, t, audioRef, lastAudio)
               ELSE NullGesture
    IN  IF upd.threw
        THEN [ran |-> TRUE, threw |-> TRUE, hist |-> upd.hist, detected |-> NullGesture]
        ELSE [ran |-> TRUE, threw |-> FALSE, hist |-> upd.hist,
              detected |-> IF two # NullGesture THEN two
                           ELSE SingleHandLoop(entries, upd.hist, 1, t)]

----------------------------------------------------------------------------
(* The detector's output: hands on the integer grid *)

Landmark(x, y) == [x |-> x, y |-> y, z |-> 0]

\* A hand with its wrist at (wx, wy); ext says which of thumb, index,
\* middle, ring, pinky are stretched; up = 1 has the fingers point to the
\* top of the image (smaller y), up = -1 to the bottom.
MkHand(wx, wy, ext, up) ==
    LET P(dx, dy) == Landmark(wx + dx, wy + up * dy)
    IN  Arr(<<
        P(0, 0),
        P(-3, -2), P(-5, -5), P(-7, -8),
        IF ext[1] THEN P(-9, -11) ELSE P(-3, -4),
        P(-4, -12), P(-4, -16), P(-4, -19),
        IF ext[2] THEN P(-4, -22) ELSE P(-4, -13),
        P(0, -12), P(0, -17), P(0, -21),
        IF ext[3] THEN P(0, -24) ELSE P(0, -14),
        P(4, -12), P(4, -16), P(4, -19),
        IF ext[4] THEN P(4, -22) ELSE P(4, -13),
        P(8, -12), P(8, -15), P(8, -17),
        IF ext[5] THEN P(8, -19) ELSE P(8, -13) >>)

\* the first n landmarks of a hand, and a hand with one landmark too many
Truncated(h, n) == Arr(SubSeq(h.pts, 1, n))
Extended(h) == Arr(Append(h.pts, h.pts[1]))

\* a hand given by the offsets of its landmarks from the wrist
HandAt(wx, wy, shape) ==
    Arr([i \in 1..Len(shape) |-> Landmark(wx + shape[i][1], wy + shape[i][2])])

\* a closed hand: every tip below its joint, the tips gathered at the palm
FistShape ==
    << <<0, 0>>,
       <<-3, -3>>, <<-5, -9>>, <<-5, -10>>, <<-3, -8>>,
       <<-6, -12>>, <<-5, -14>>, <<-5, -12>>, <<-4, -9>>,
       <<-2, -12>>, <<-2, -14>>, <<-2, -12>>, <<-2, -9>>,
       <<2, -12>>, <<1, -14>>, <<1, -12>>, <<0, -9>>,
       <<6, -12>>, <<4, -14>>, <<3, -12>>, <<1, -9>> >>

\* the same hand with the four finger tips 0.01 above their joints and the
\* thumb tip farther from the wrist than its base
BarelyOpenShape ==
    [i \in 1..21 |->
        IF i \in {9, 13, 17, 21} THEN <<FistShape[i][1], -15>>
        ELSE IF i = 5 THEN <<-3, -13>>
        ELSE FistShape[i]]

\* the hand seen from its other side: x reflected at the wrist
Mirror(h) ==
    IF h.null THEN h
    ELSE Arr([i \in 1..Length(h) |->
                [h.pts[i] EXCEPT !.x = 2 * h.pts[1].x - @]])

\* landmark i moved by (dx, dz)
Moved(h, i, dx, dz) ==
    Arr([h.pts EXCEPT ![i + 1] = [@ EXCEPT !.x = @ + dx, !.z = @ + dz]])

\* landmark i moved down the image by dy
Lowered(h, i, dy) ==
    Arr([h.pts EXCEPT ![i + 1] = [@ EXCEPT !.y = @ + dy]])

\* every coordinate multiplied by k
Scale(h, k) ==
    IF h.null THEN h
    ELSE Arr([i \in 1..Length(h) |->
                [x |-> k * h.pts[i].x, y |-> k * h.pts[i].y, z |-> k * h.pts[i].z]])

ThumbOnly == <<TRUE, FALSE, FALSE, FALSE, FALSE>>
AllFive == <<TRUE, TRUE, TRUE, TRUE, TRUE>>
IndexRing == <<FALSE, TRUE, FALSE, TRUE, FALSE>>
NoneOut == <<FALSE, FALSE, FALSE, FALSE, FALSE>>
IndexOnly == <<FALSE, TRUE, FALSE, FALSE, FALSE>>

\* a HandResults value
Results(hs, labels) ==
    [multiHandLandmarks |-> hs,
     multiHandedness |-> [present |-> TRUE, labels |-> labels]]

EmptyFrame == Results(<<>>, <<>>)
ThumbsUpFrame == Results(<<MkHand(60, 80, ThumbOnly, 1)>>, <<"Right">>)
StopFrame == Results(<<MkHand(30, 80, AllFive, 1)>>, <<"Left">>)
NoGestureFrame == Results(<<MkHand(60, 80, IndexRing, 1)>>, <<"Right">>)

\* the frames of the debounce runs: two labels, and no hands
DebounceFrames == {EmptyFrame, ThumbsUpFrame, StopFrame}

\* the frames of the runs with stopDetection: two labels
StopFrames == {ThumbsUpFrame, StopFrame}

\* two hands with palm centres 0.30 apart, and 0.08 apart
FarFrame ==
    Results(<<MkHand(38, 80, IndexRing, 1), MkHand(68, 80, IndexRing, 1)>>,
            <<"Left", "Right">>)
CloseFrame ==
    Results(<<MkHand(44, 80, IndexRing, 1), MkHand(52, 80, IndexRing, 1)>>,
            <<"Left", "Right">>)

HandsFrames == {FarFrame, CloseFrame}

\* the frames of the runs with the microphone: one hand with a candidate,
\* and two hands, for which the clap rule reads the audio timestamp
AudioFrames == {ThumbsUpFrame, CloseFrame}

\* two hands under the handedness the detector may report: two labels, the
\* same label twice, one label for two hands, and no handedness at all
TwoHands == <<MkHand(38, 80, ThumbOnly, 1), MkHand(68, 80, AllFive, 1)>>
LabelFrames ==
    {Results(TwoHands, <<"Left", "Right">>),
     Results(TwoHands, <<"Right", "Right">>),
     Results(TwoHands, <<"Right">>),
     [multiHandLandmarks |-> TwoHands,
      multiHandedness |-> [present |-> FALSE, labels |-> <<>>]]}

\* the frames that fill the histories of two labels
RingFrames == {FarFrame}

\* an open hand held low at x = 0.60, and held high at x = 0.68
OpenLowFrame == Results(<<MkHand(60, 80, AllFive, 1)>>, <<"Right">>)
OpenHighFrame == Results(<<MkHand(68, 30, AllFive, 1)>>, <<"Right">>)

\* the frames of a hand that waves, leaves and comes back: the open hand
\* labelled Right, and a frame that holds a Left hand only
AbsenceFrames == {OpenLowFrame, OpenHighFrame, StopFrame}

\* two hands that match no two-hand rule: an open hand held high at
\* x = 0.62 with a thumb right of it, and a closed hand with the same thumb
OpenAndThumbFrame ==
    Results(<<MkHand(62, 30, AllFive, 1), MkHand(80, 80, ThumbOnly, 1)>>,
            <<"Right", "Left">>)
ClosedAndThumbFrame ==
    Results(<<MkHand(60, 80, NoneOut, 1), MkHand(80, 80, ThumbOnly, 1)>>,
            <<"Right", "Left">>)

WaveFrames ==
    {OpenLowFrame, OpenHighFrame, OpenAndThumbFrame, ClosedAndThumbFrame}

\* frames with a hand that has not 21 landmarks: 10 and 22 landmarks alone,
\* 20 landmarks beside a valid hand, and a valid hand beside 22 landmarks
ShortFrame == Results(<<Truncated(MkHand(60, 80, ThumbOnly, 1), 10)>>, <<"Right">>)
LongFrame == Results(<<Extended(MkHand(60, 80, ThumbOnly, 1))>>, <<"Right">>)
TwentyFrame ==
    Results(<<Truncated(MkHand(68, 80, IndexRing, 1), 20),
              MkHand(38, 80, IndexRing, 1)>>, <<"Right", "Left">>)
BesideFrame ==
    Results(<<MkHand(38, 80, ThumbOnly, 1),
              Extended(MkHand(68, 80, AllFive, 1))>>, <<"Left", "Right">>)

MalformedFrames == {ShortFrame, LongFrame, TwentyFrame, BesideFrame, NoGestureFrame}

\* the hands handed to the classifiers directly
ProbeHands ==
    {NullHand, Arr(<<>>),
     MkHand(60, 80, ThumbOnly, 1), MkHand(30, 80, AllFive, 1),
     MkHand(60, 80, AllFive, 1), MkHand(60, 80, IndexRing, 1),
     MkHand(40, 80, <<FALSE, FALSE, FALSE, FALSE, TRUE>>, 1),
     MkHand(48, 80, <<FALSE, FALSE, FALSE, FALSE, TRUE>>, 1),
     Truncated(MkHand(60, 80, ThumbOnly, 1), 20),
     Truncated(MkHand(30, 80, AllFive, 1), 10),
     Extended(MkHand(60, 80, ThumbOnly, 1)),
     Extended(MkHand(40, 80, <<FALSE, FALSE, FALSE, FALSE, TRUE>>, 1)),
     HandAt(60, 80, FistShape), HandAt(30, 80, FistShape),
     MkHand(60, 80, NoneOut, 1),
     HandAt(60, 80, BarelyOpenShape), Mirror(HandAt(60, 80, BarelyOpenShape)),
     MkHand(50, 80, AllFive, 1), MkHand(49, 80, AllFive, 1),
     Mirror(MkHand(60, 80, AllFive, 1)), Mirror(MkHand(30, 80, AllFive, 1)),
     Moved(Mirror(MkHand(60, 80, AllFive, 1)), 17, 0, 40),
     Moved(Mirror(MkHand(60, 80, AllFive, 1)), 17, 0, 30),
     MkHand(47, 80, AllFive, 1), Mirror(MkHand(50, 80, AllFive, 1)),
     Moved(MkHand(45, 80, AllFive, 1), 12, 3, 0),
     Moved(Mirror(MkHand(55, 80, AllFive, 1)), 12, -3, 0),
     MkHand(30, 40, AllFive, -1), MkHand(60, 40, ThumbOnly, -1),
     MkHand(60, 80, IndexOnly, 1), Lowered(MkHand(60, 80, IndexOnly, 1), 12, 8)}

\* the factors by which a probed hand is scaled
ScaleFactors == {1, 2, 3}

ProbeHandedness ==
    {[present |-> FALSE, labels |-> <<>>],
     [present |-> TRUE, labels |-> <<"Left", "Right">>],
     [present |-> TRUE, labels |-> <<"Right", "Left">>]}

----------------------------------------------------------------------------
(* State *)

\* Date.now() at the start: far from 0, as the epoch clock is
Epoch == CooldownMs + AudioWindowMs

\* defaultGestureMappings, each text by its first words
defaultGestureMappings ==
    <<[id |-> "wave", name |-> "Wave", text |-> "Sampurasun sadayana",
       enabled |-> TRUE],
      [id |-> "open-palm", name |-> "Open Palm", text |-> "Saya berasal",
       enabled |-> TRUE],
      [id |-> "thumbs-up", name |-> "Thumbs-Up", text |-> "Saya siap",
       enabled |-> TRUE]>>

\* the state that the first render of App closes over: no mappings yet, and
\* the initial settings
FirstRender == [gestureMappings |-> <<>>, ttsEnabled |-> TRUE]

\* gestureMappings.find(m => m.name === gesture.gesture && m.enabled)
FindMapping(mappings, gesture) ==
    LET hits == {k \in 1..Len(mappings) :
                    mappings[k].name = gesture /\ mappings[k].enabled}
    IN  IF hits = {} THEN 0
        ELSE CHOOSE k \in hits : \A j \in hits : k <= j

\* handleGestureDetected of the render that holds the state render: the
\* text it speaks, "" when it speaks nothing
handleGestureDetected(render, gesture) ==
    LET k == FindMapping(render.gestureMappings, gesture.gesture)
    IN  IF k # 0 /\ render.ttsEnabled THEN render.gestureMappings[k].text
        ELSE ""

\* the render whose handleGestureDetected the detector calls:
\* initializeHands runs once, on mount, and hands to onResults the
\* processResults of the first render, which holds the onGestureDetected of
\* the first render
BoundRender == FirstRender

\* the mappings that are saved: two of one id, and one of another
WaveMapping == [id |-> "wave", name |-> "Wave", text |-> "Halo", enabled |-> TRUE]
WaveEdited == [id |-> "wave", name |-> "Wave", text |-> "Hai", enabled |-> FALSE]
FistMapping == [id |-> "fist", name |-> "Fist", text |-> "Siap", enabled |-> TRUE]
Mappings == {WaveMapping, WaveEdited, FistMapping}

\* the lists of at most MaxMappings mappings
MappingLists ==
    UNION {[1..n -> Mappings] : n \in 0..MaxMappings}

\* the order of the keys of the store: the ids as strings
IdRank(id) ==
    CASE id = "fist" -> 1
      [] id = "open-palm" -> 2
      [] id = "thumbs-up" -> 3
      [] id = "wave" -> 4

\* the records of an object store with keyPath id, as getAll() lists them:
\* by ascending key
RECURSIVE ByKey(_)
ByKey(records) ==
    IF records = {} THEN <<>>
    ELSE LET first == CHOOSE r \in records :
                        \A q \in records : IdRank(r.id) <= IdRank(q.id)
         IN  <<first>> \o ByKey(records \ {first})

Range(list) == {list[k] : k \in 1..Len(list)}

\* store.add fails on a key that is in the store: the request's error
\* aborts the transaction
KeysDistinct(list) ==
    \A i, j \in 1..Len(list) : list[i].id = list[j].id => i = j

\* a save that adds to the store what it holds
saveKeeping(store, list) ==
    IF KeysDistinct(list)
    THEN [store |-> ByKey(Range(list) \cup
                          {r \in Range(store) :
                              \A k \in 1..Len(list) : list[k].id # r.id}),
          rejected |-> FALSE]
    ELSE [store |-> store, rejected |-> TRUE]

\* saveGestureMappings(mappings): store.clear(), then store.add of each
saveGestureMappings(store, list) ==
    IF KeysDistinct(list)
    THEN [store |-> ByKey(Range(list)), rejected |-> FALSE]
    ELSE [store |-> store, rejected |-> TRUE]

\* getGestureMappings(): store.getAll(); an empty store is filled with
\* the default mappings, which are the result
getGestureMappings(store) ==
    IF Len(store) = 0
    THEN [store |-> saveGestureMappings(store, defaultGestureMappings).store,
          result |-> defaultGestureMappings]
    ELSE [store |-> store, result |-> store]

\* a call of the storage service: its arguments, the store before it, what
\* it resolved to, and the call before it
NoCall == [op |-> "", arg |-> <<>>, before |-> <<>>, rejected |-> FALSE,
           result |-> <<>>, prev |-> <<>>]

NoTimer == [armed |-> FALSE, due |-> 0, detected |-> NullGesture]
\* a run: the consecutive processed frames that yield one and the same label
NoRun == [id |-> 0, label |-> "", start |-> 0, fromIdle |-> FALSE,
          steady |-> FALSE, events |-> 0, sealed |-> 0]
NoFrame == [n |-> 0, at |-> 0, ran |-> FALSE, threw |-> FALSE,
            detected |-> NullGesture, armed |-> FALSE, hands |-> 0,
            malformed |-> 0, labels |-> <<>>, audioRef |-> 0,
            micFailed |-> FALSE, lastAudio |-> 0, results |-> EmptyFrame,
            epoch |-> 0]
NoProbe == [called |-> FALSE, a |-> NullHand, b |-> NullHand,
            handedness |-> [present |-> FALSE, labels |-> <<>>], k |-> 1,
            single |-> NullGesture, pair |-> NullGesture,
            single005 |-> NullGesture, scaled005 |-> NullGesture,
            pair005 |-> NullGesture, hook |-> NullGesture,
            hookThrew |-> FALSE, swapped |-> NullGesture]

InitWith(frames, ticks, starts, stops) ==
    /\ now = Epoch
    /\ isDetecting = FALSE
    /\ cameraRunning = FALSE
    /\ lastGestureRef = ""
    /\ gestureTimeoutRef = NoTimer
    /\ resetTimers = {}
    /\ historyRef = [l \in LabelKeys |-> <<>>]
    /\ detectors = <<>>
    /\ audioClapRef = 0
    /\ lastAudioClapRef = 0
    /\ delivered = <<>>
    /\ lastFrame = NoFrame
    /\ probe = NoProbe
    /\ obs = [epoch |-> 0, lastCand |-> "", lastFrameAt |-> 0, run |-> NoRun,
              runs |-> 0, resets |-> 0, interrupted |-> FALSE, sinceEmit |-> {},
              armedBy |-> [n |-> 0, detected |-> NullGesture, epoch |-> 0]]
    /\ budget = [frames |-> frames, ticks |-> ticks, starts |-> starts,
                 stops |-> stops]
    /\ app = FirstRender
    /\ db = [store |-> <<>>, last |-> NoCall]

Idle == ~gestureTimeoutRef.armed /\ lastGestureRef = "" /\ resetTimers = {}

\* what a frame was to the debounce: its candidate's label, or why none
FrameKind(d) ==
    IF ~d.ran THEN "nohands"
    ELSE IF d.threw THEN "threw"
    ELSE IF d.detected = NullGesture THEN "none"
    ELSE d.detected.gesture

IsCandidate(kind) == kind \notin {"nohands", "threw", "none"}

\* the type GestureType: the labels that have a default mapping
GestureType ==
    {"Wave", "Open Palm", "Thumbs-Up", "Fist", "Pointing", "Victory", "Clap",
     "Cross Hands", "Raise Both Hands", "Namaste"}

\* a debounce that does not test whether there is a candidate
ArmUnchecked(detected, last) == detected.gesture # last

\* a debounce that arms the timer on every frame
ArmAlways(detected, last) == TRUE

\* the condition of "Debounce and callback": a candidate whose label is not
\* lastGestureRef.current arms the stability timer
ShouldArm(detected, last) ==
    detected # NullGesture /\ detected.gesture # last

\* a callback that stores no label
EmittedNothing(detected) == ""
\* the label the timer's callback stores in lastGestureRef.current
EmittedLabel(detected) == detected.gesture

Malformed(results) ==
    Cardinality({k \in 1..Len(results.multiHandLandmarks) :
        LET h == results.multiHandLandmarks[k]
        IN  h.null \/ Length(h) # LandmarkCount})

----------------------------------------------------------------------------
(* Actions *)

\* a timer that is armed only when none is pending
armIfFree(timer, detected, t) ==
    IF timer.armed THEN timer
    ELSE [armed |-> TRUE, due |-> t + StabilityMs, detected |-> detected]

\* the pending timer, if any, is cleared, and gestureTimeoutRef.current is
\* the timer set for the new candidate
armStability(timer, detected, t) ==
    [armed |-> TRUE, due |-> t + StabilityMs, detected |-> detected]

\* the due times of all pending timers
Deadlines ==
    resetTimers \cup (IF gestureTimeoutRef.armed THEN {gestureTimeoutRef.due} ELSE {})


\* hands.onResults -> processResults(results).  A timer callback that is
\* due has been queued before the result arrives and runs first.
processResults(results) ==
    /\ cameraRunning
    /\ budget.frames > 0
    /\ \A due \in Deadlines : due > now
    /\ \E d \in {Detect(results, historyRef, now, audioClapRef, lastAudioClapRef)} :
       LET arm == ~d.threw /\ ShouldArm(d.detected, lastGestureRef)
           kind == FrameKind(d)
           run == obs.run
           entries == handsByLabel(results)
       IN  /\ historyRef' = d.hist
           /\ gestureTimeoutRef' =
                IF arm THEN armStability(gestureTimeoutRef, d.detected, now)
                ELSE gestureTimeoutRef
           /\ lastFrame' =
                [n |-> lastFrame.n + 1, at |-> now, ran |-> d.ran,
                 threw |-> d.threw, detected |-> d.detected, armed |-> arm,
                 hands |-> Len(results.multiHandLandmarks),
                 malformed |-> Malformed(results),
                 labels |-> [k \in 1..Len(entries) |-> entries[k].label],
                 audioRef |-> audioClapRef,
                 micFailed |-> audioClapRef # 0 /\ detectors[audioClapRef].failed,
                 lastAudio |-> lastAudioClapRef,
                 results |-> results, epoch |-> obs.epoch]
           /\ obs' =
                [obs EXCEPT
                   !.lastCand = IF IsCandidate(kind) THEN kind ELSE @,
                   !.lastFrameAt = now,
                   !.armedBy = IF arm THEN [n |-> lastFrame.n + 1,
                                            detected |-> d.detected,
                                            epoch |-> obs.epoch]
                               ELSE @,
                   !.sinceEmit = @ \cup {kind},
                   !.interrupted =
                        IF arm THEN FALSE
                        ELSE IF gestureTimeoutRef.armed
                                /\ now < gestureTimeoutRef.due
                                /\ kind # gestureTimeoutRef.detected.gesture
                             THEN TRUE
                        ELSE @,
                   !.runs = IF IsCandidate(kind) /\ run.label # kind
                            THEN @ + 1 ELSE @,
                   !.run =
                        IF IsCandidate(kind) /\ run.label = kind
                        THEN [run EXCEPT
                                !.steady = @ /\ now - obs.lastFrameAt <= TickMs,
                                !.sealed = run.events]
                        ELSE IF IsCandidate(kind)
                        THEN [id |-> obs.runs + 1, label |-> kind, start |-> now,
                              fromIdle |-> Idle, steady |-> TRUE, events |-> 0,
                              sealed |-> 0]
                        ELSE NoRun]
    /\ budget' = [budget EXCEPT !.frames = @ - 1]
    /\ UNCHANGED <<now, isDetecting, cameraRunning, lastGestureRef, resetTimers,
                   detectors, audioClapRef, lastAudioClapRef, delivered, probe,
                   app, db>>

\* the callback of the stability timer (setTimeout(..., 150))
StabilityTimer ==
    /\ gestureTimeoutRef.armed
    /\ gestureTimeoutRef.due <= now
    /\ LET g == gestureTimeoutRef.detected
       IN  /\ lastGestureRef' = EmittedLabel(g)
           /\ delivered' = Append(delivered,
                [gesture |-> g.gesture, confidence |-> g.confidence,
                 timestamp |-> g.timestamp, at |-> now, epoch |-> obs.epoch,
                 lastCand |-> obs.lastCand, interrupted |-> obs.interrupted,
                 between |-> obs.sinceEmit, resets |-> obs.resets,
                 frame |-> lastFrame.n, armedBy |-> obs.armedBy,
                 said |-> handleGestureDetected(BoundRender, g),
                 mapped |-> handleGestureDetected(app, g),
                 run |-> IF obs.run.label = g.gesture THEN obs.run.id ELSE 0])
           /\ obs' = [obs EXCEPT
                        !.sinceEmit = {},
                        !.run = IF @.label = g.gesture
                                THEN [@ EXCEPT !.events = @ + 1] ELSE @]
    /\ resetTimers' = resetTimers \cup {now + CooldownMs}
    /\ gestureTimeoutRef' = [gestureTimeoutRef EXCEPT !.armed = FALSE]
    /\ UNCHANGED <<now, isDetecting, cameraRunning, historyRef, detectors,
                   audioClapRef, lastAudioClapRef, lastFrame, probe, budget,
                   app, db>>

\* the callback of a cooldown timer (setTimeout(..., 1800))
CooldownTimer ==
    \E due \in resetTimers :
        /\ due <= now
        /\ lastGestureRef' = ""
        /\ resetTimers' = resetTimers \ {due}
        /\ obs' = [obs EXCEPT !.resets = @ + 1]
        /\ UNCHANGED <<now, isDetecting, cameraRunning, gestureTimeoutRef,
                       historyRef, detectors, audioClapRef, lastAudioClapRef,
                       delivered, lastFrame, probe, budget, app, db>>

\* Time passes by one grain of the clock.  A timer that is due runs before
\* the clock moves on.
Tick ==
    /\ budget.ticks > 0
    /\ cameraRunning
    /\ \A due \in Deadlines : due >= now + TickMs
    /\ now' = now + TickMs
    /\ budget' = [budget EXCEPT !.ticks = @ - 1]
    /\ UNCHANGED <<isDetecting, cameraRunning, lastGestureRef, gestureTimeoutRef,
                   resetTimers, historyRef, detectors, audioClapRef,
                   lastAudioClapRef, delivered, lastFrame, probe, obs, app, db>>

\* Time passes up to the next timer's due time
AwaitTimer ==
    /\ Deadlines # {}
    /\ \A due \in Deadlines : due > now
    /\ now' = CHOOSE due \in Deadlines : \A other \in Deadlines : due <= other
    /\ UNCHANGED <<isDetecting, cameraRunning, lastGestureRef, gestureTimeoutRef,
                   resetTimers, historyRef, detectors, audioClapRef,
                   lastAudioClapRef, delivered, lastFrame, probe, obs, budget,
                   app, db>>

\* a detector whose start() has been called once.  prevClapAt is the time of
\* the callback before the last one (0 = none).  waiting counts the
\* start() calls that await getUserMedia (starting: there is one), streams
\* the microphone streams that are open, loops the process loops that are
\* scheduled; a loop ends when it finds running false.
NewDetector == [starting |-> TRUE, running |-> FALSE, failed |-> FALSE,
                lastClapAt |-> 0, waiting |-> 1, streams |-> 0, loops |-> 0,
                prevClapAt |-> 0]

\* startDetection: the camera starts, an AudioClapDetector is constructed,
\* stored in audioClapRef and started (start() waits for the microphone)
startDetection ==
    /\ ~isDetecting
    /\ budget.starts > 0
    /\ budget' = [budget EXCEPT !.starts = @ - 1]
    /\ isDetecting' = TRUE
    /\ cameraRunning' = TRUE
    /\ detectors' = Append(detectors, NewDetector)
    /\ audioClapRef' = Len(detectors) + 1
    /\ UNCHANGED <<now, lastGestureRef, gestureTimeoutRef, resetTimers,
                   historyRef, lastAudioClapRef, delivered, lastFrame, probe,
                   obs, app, db>>

\* a timer that is left as it is
keepTimeout(timer) == timer

\* clearTimeout(gestureTimeoutRef.current): the timer will not fire
clearTimeout(timer) == [timer EXCEPT !.armed = FALSE]

\* AudioClapDetector.stop()
\* the loops end, and the stream of this.source, the last one opened, is
\* closed
DetectorStop(d) ==
    [d EXCEPT !.running = FALSE, !.loops = 0,
              !.streams = IF @ > 0 THEN @ - 1 ELSE 0]

\* stopDetection.  hasCamera is whether the closure that runs holds the
\* started Camera: the unmount cleanup holds the stopDetection of the first
\* render, whose camera is null, and leaves the camera running.
stopDetection(hasCamera) ==
    /\ isDetecting
    /\ budget.stops > 0
    /\ cameraRunning' = IF hasCamera THEN FALSE ELSE cameraRunning
    /\ gestureTimeoutRef' = clearTimeout(gestureTimeoutRef)
    /\ isDetecting' = FALSE
    /\ lastGestureRef' = ""
    /\ detectors' = IF audioClapRef = 0 THEN detectors
                    ELSE [detectors EXCEPT ![audioClapRef] = DetectorStop(@)]
    /\ audioClapRef' = 0
    /\ obs' = [obs EXCEPT !.epoch = @ + 1, !.run = NoRun,
                          !.interrupted = FALSE, !.sinceEmit = @ \cup {"stop"}]
    /\ budget' = [budget EXCEPT !.stops = @ - 1]
    /\ UNCHANGED <<now, resetTimers, historyRef, lastAudioClapRef, delivered,
                   lastFrame, probe, app, db>>

\* getUserMedia resolves inside start(): the detector runs
MicGranted ==
    \E i \in 1..Len(detectors) :
        /\ detectors[i].starting
        /\ detectors' = [detectors EXCEPT ![i].waiting = @ - 1,
                                          ![i].starting = detectors[i].waiting > 1,
                                          ![i].running = TRUE,
                                          ![i].streams = @ + 1,
                                          ![i].loops = @ + 1]
        /\ UNCHANGED <<now, isDetecting, cameraRunning, lastGestureRef,
                       gestureTimeoutRef, resetTimers, historyRef, audioClapRef,
                       lastAudioClapRef, delivered, lastFrame, probe, obs, budget,
                       app, db>>

\* getUserMedia rejects inside start(): caught, running = false
MicDenied ==
    \E i \in 1..Len(detectors) :
        /\ detectors[i].starting
        /\ detectors' = [detectors EXCEPT ![i].waiting = @ - 1,
                                          ![i].starting = detectors[i].waiting > 1,
                                          ![i].running = FALSE,
                                          ![i].loops = 0,
                                          ![i].failed = TRUE]
        /\ UNCHANGED <<now, isDetecting, cameraRunning, lastGestureRef,
                       gestureTimeoutRef, resetTimers, historyRef, audioClapRef,
                       lastAudioClapRef, delivered, lastFrame, probe, obs, budget,
                       app, db>>

\* a peak that counts whatever the time since the last callback
always(d, t) == TRUE

\* now - this.lastClapAt > this.cooldownMs
cooledDown(d, t) == t - d.lastClapAt > AudioCooldownMs

\* a clap callback that would also cancel the pending candidate
AudioPeakDisarming ==
    \E i \in 1..Len(detectors) :
        /\ detectors[i].running
        /\ IF cooledDown(detectors[i], now)
           THEN /\ detectors' = [detectors EXCEPT
                                    ![i].prevClapAt = detectors[i].lastClapAt,
                                    ![i].lastClapAt = now]
                /\ lastAudioClapRef' = now
                /\ gestureTimeoutRef' = clearTimeout(gestureTimeoutRef)
           ELSE UNCHANGED <<detectors, lastAudioClapRef, gestureTimeoutRef>>
        /\ UNCHANGED <<now, isDetecting, cameraRunning, lastGestureRef,
                       resetTimers, historyRef, audioClapRef, delivered,
                       lastFrame, probe, obs, budget, app, db>>

\* start() up to its await: nothing when the detector runs, one more call
\* awaiting getUserMedia otherwise
start(d) ==
    IF d.running THEN d
    ELSE [d EXCEPT !.waiting = @ + 1, !.starting = TRUE]

\* one more call of start() on a detector
DetectorStart ==
    \E i \in 1..Len(detectors) :
        /\ detectors[i].waiting < MaxWaiting
        /\ budget.starts > 0
        /\ budget' = [budget EXCEPT !.starts = @ - 1]
        /\ detectors' = [detectors EXCEPT ![i] = start(@)]
        /\ UNCHANGED <<now, isDetecting, cameraRunning, lastGestureRef,
                       gestureTimeoutRef, resetTimers, historyRef, audioClapRef,
                       lastAudioClapRef, delivered, lastFrame, probe, obs,
                       app, db>>

\* process() of a running detector samples a peak above the threshold; the
\* callback registered by the hook stores Date.now()
AudioPeak ==
    \E i \in 1..Len(detectors) :
        /\ detectors[i].running
        /\ IF cooledDown(detectors[i], now)
           THEN /\ detectors' = [detectors EXCEPT
                                    ![i].prevClapAt = detectors[i].lastClapAt,
                                    ![i].lastClapAt = now]
                /\ lastAudioClapRef' = now
           ELSE UNCHANGED <<detectors, lastAudioClapRef>>
        /\ UNCHANGED <<now, isDetecting, cameraRunning, lastGestureRef,
                       gestureTimeoutRef, resetTimers, historyRef, audioClapRef,
                       delivered, lastFrame, probe, obs, budget, app, db>>

\* GestureMappingPanel's mount effect: the stored mappings, or the default
\* ones, reach App through onMappingUpdate = setGestureMappings
LoadMappings ==
    /\ app.gestureMappings = <<>>
    /\ app' = [app EXCEPT !.gestureMappings = defaultGestureMappings]
    /\ UNCHANGED <<now, isDetecting, cameraRunning, lastGestureRef,
                   gestureTimeoutRef, resetTimers, historyRef, detectors,
                   audioClapRef, lastAudioClapRef, delivered, lastFrame,
                   probe, obs, budget, db>>

\* GestureMappingPanel.toggleMapping(id)
toggleMapping(id) ==
    /\ app' = [app EXCEPT !.gestureMappings =
                [k \in 1..Len(@) |->
                    IF @[k].id = id THEN [@[k] EXCEPT !.enabled = ~@]
                    ELSE @[k]]]
    /\ \E k \in 1..Len(app.gestureMappings) : app.gestureMappings[k].id = id
    /\ UNCHANGED <<now, isDetecting, cameraRunning, lastGestureRef,
                   gestureTimeoutRef, resetTimers, historyRef, detectors,
                   audioClapRef, lastAudioClapRef, delivered, lastFrame,
                   probe, obs, budget, db>>

\* App.toggleTTS
toggleTTS ==
    /\ app' = [app EXCEPT !.ttsEnabled = ~@]
    /\ UNCHANGED <<now, isDetecting, cameraRunning, lastGestureRef,
                   gestureTimeoutRef, resetTimers, historyRef, detectors,
                   audioClapRef, lastAudioClapRef, delivered, lastFrame,
                   probe, obs, budget, db>>

\* what a call of the storage service leaves alone
HookUnchanged ==
    UNCHANGED <<now, isDetecting, cameraRunning, lastGestureRef,
                gestureTimeoutRef, resetTimers, historyRef, detectors,
                audioClapRef, lastAudioClapRef, delivered, lastFrame,
                probe, obs, budget, app>>

\* a call of saveGestureMappings(list)
SaveMappings ==
    \E list \in MappingLists :
        LET saved == saveGestureMappings(db.store, list)
        IN  /\ db' = [db EXCEPT
                        !.store = saved.store,
                        !.last = [op |-> "save", arg |-> list,
                                  before |-> db.store,
                                  rejected |-> saved.rejected,
                                  result |-> <<>>,
                                  prev |-> [db.last EXCEPT
                                              !.prev = NoCall.prev]]]
            /\ HookUnchanged

\* a call of getGestureMappings()
GetMappings ==
    LET got == getGestureMappings(db.store)
    IN  /\ db' = [db EXCEPT
                    !.store = got.store,
                    !.last = [op |-> "get", arg |-> <<>>, before |-> db.store,
                              rejected |-> FALSE, result |-> got.result,
                              prev |-> [db.last EXCEPT !.prev = NoCall.prev]]]
        /\ HookUnchanged

\* exportData(): the mappings that getGestureMappings resolves to
exportData ==
    LET got == getGestureMappings(db.store)
    IN  /\ db' = [db EXCEPT
                    !.store = got.store,
                    !.last = [op |-> "export", arg |-> <<>>,
                              before |-> db.store, rejected |-> FALSE,
                              result |-> got.result,
                              prev |-> [db.last EXCEPT !.prev = NoCall.prev]]]
        /\ HookUnchanged

\* importData(data), data being what the exportData before it resolved to
importData ==
    /\ db.last.op = "export"
    /\ LET saved == saveGestureMappings(db.store, db.last.result)
       IN  db' = [db EXCEPT
                    !.store = saved.store,
                    !.last = [op |-> "import", arg |-> db.last.result,
                              before |-> db.store, rejected |-> saved.rejected,
                              result |-> <<>>,
                              prev |-> [db.last EXCEPT !.prev = NoCall.prev]]]
    /\ HookUnchanged

\* the handedness entries in the other order
Swapped(hd) ==
    IF Len(hd.labels) = 2
    THEN [hd EXCEPT !.labels = <<hd.labels[2], hd.labels[1]>>]
    ELSE hd

\* the frame in which the detector reports the hands hs with handedness hd
Frame(hs, hd) == [multiHandLandmarks |-> hs, multiHandedness |-> hd]

\* a direct call of the classifiers of both revisions: the first hand alone,
\* the first hand scaled by k, and the two hands as a pair; and what
\* processResults detects in a first frame that lists the two hands, in
\* this order and in the other
Classify ==
    \E a \in ProbeHands, b \in ProbeHands, hd \in ProbeHandedness,
       k \in ScaleFactors :
        /\ ~probe.called
        /\ probe' = [called |-> TRUE, a |-> a, b |-> b, handedness |-> hd,
                     k |-> k,
                     single |-> classifyGesture(a, now),
                     pair |-> classifyTwoHandGesture(a, b, hd, now),
                     single005 |-> classifyGesture005(a, now),
                     scaled005 |-> classifyGesture005(Scale(a, k), now),
                     pair005 |-> classifyTwoHandGesture005(a, b, now),
                     hook |-> Detect(Frame(<<a, b>>, hd), historyRef, now,
                                     audioClapRef, lastAudioClapRef).detected,
                     hookThrew |-> Detect(Frame(<<a, b>>, hd), historyRef, now,
                                     audioClapRef, lastAudioClapRef).threw,
                     swapped |-> Detect(Frame(<<b, a>>, Swapped(hd)), historyRef,
                                     now, audioClapRef, lastAudioClapRef).detected]
        /\ UNCHANGED <<now, isDetecting, cameraRunning, lastGestureRef,
                       gestureTimeoutRef, resetTimers, historyRef, detectors,
                       audioClapRef, lastAudioClapRef, delivered, lastFrame,
                       obs, budget, app, db>>

----------------------------------------------------------------------------
(* Specifications *)

\* the debounce: single-hand frames of two labels and frames without
\* hands, the two timers and the clock, from the start of detection on.
\* The clock is read grain by grain while a stability window is open, and
\* at the timers' due times otherwise.
InitDebounce == InitWith(MaxFrames, MaxTicks, MaxStarts, 0)
NextDebounce ==
    \/ \E r \in DebounceFrames : processResults(r)
    \/ StabilityTimer
    \/ CooldownTimer
    \/ gestureTimeoutRef.armed /\ Tick
    \/ AwaitTimer
    \/ startDetection
SpecDebounce == InitDebounce /\ [][NextDebounce]_vars

\* frames with malformed hands
InitMalformed == InitWith(MaxFrames, 0, MaxStarts, 0)
NextMalformed ==
    \/ \E r \in MalformedFrames : processResults(r)
    \/ StabilityTimer
    \/ CooldownTimer
    \/ AwaitTimer
    \/ startDetection
SpecMalformed == InitMalformed /\ [][NextMalformed]_vars

\* two-hand frames, with the audio detector and the microphone
InitHands == InitWith(MaxHandFrames, MaxTicks, MaxStarts, MaxStops)
NextHands ==
    \/ \E r \in HandsFrames : processResults(r)
    \/ Tick
    \/ startDetection
    \/ \E hasCamera \in BOOLEAN : stopDetection(hasCamera)
    \/ MicGranted
    \/ MicDenied
    \/ AudioPeak
SpecHands == InitHands /\ [][NextHands]_vars

\* an open hand moving through the frames, time standing still
InitWave == InitWith(MaxWaveFrames, 0, MaxStarts, 0)
NextWave ==
    \/ \E r \in WaveFrames : processResults(r)
    \/ startDetection
SpecWave == InitWave /\ [][NextWave]_vars

\* single-hand frames, with stopDetection
InitStop == InitWith(MaxStopFrames, MaxTicks, MaxStarts, MaxStops)
NextStop ==
    \/ \E r \in StopFrames : processResults(r)
    \/ StabilityTimer
    \/ CooldownTimer
    \/ gestureTimeoutRef.armed /\ Tick
    \/ AwaitTimer
    \/ startDetection
    \/ \E hasCamera \in BOOLEAN : stopDetection(hasCamera)
SpecStop == InitStop /\ [][NextStop]_vars

\* frames without a candidate, enough of them to fill a history
InitRing == InitWith(MaxRingFrames, MaxRingTicks, MaxStarts, 0)
NextRing ==
    \/ \E r \in RingFrames : processResults(r)
    \/ Tick
    \/ startDetection
SpecRing == InitRing /\ [][NextRing]_vars

\* a hand that moves, so that no two consecutive frames are alike, across
\* frames without its label and across a stop; time passes while a
\* candidate is pending
InitAbsence ==
    InitWith(MaxAbsenceFrames, MaxAbsenceTicks, MaxAbsenceStarts, MaxStops)
NextAbsence ==
    \/ \E r \in AbsenceFrames : r # lastFrame.results /\ processResults(r)
    \/ StabilityTimer
    \/ gestureTimeoutRef.armed /\ Tick
    \/ startDetection
    \/ \E hasCamera \in BOOLEAN : stopDetection(hasCamera)
SpecAbsence == InitAbsence /\ [][NextAbsence]_vars

\* frames, timers and the audio detector's callbacks, in every order
InitAudio == InitWith(MaxAudioFrames, MaxAudioTicks, MaxStarts, MaxStops)
NextAudio ==
    \/ \E r \in AudioFrames : processResults(r)
    \/ StabilityTimer
    \/ gestureTimeoutRef.armed /\ Tick
    \/ startDetection
    \/ \E hasCamera \in BOOLEAN : stopDetection(hasCamera)
    \/ MicGranted
    \/ MicDenied
    \/ AudioPeak
SpecAudio == InitAudio /\ [][NextAudio]_vars

\* two hands under every handedness
InitLabels == InitWith(MaxLabelFrames, MaxTicks, MaxStarts, 0)
NextLabels ==
    \/ \E r \in LabelFrames : processResults(r)
    \/ Tick
    \/ startDetection
SpecLabels == InitLabels /\ [][NextLabels]_vars

\* one AudioClapDetector and the calls of its methods in every order
InitDetector == InitWith(0, MaxDetectorTicks, MaxDetectorStarts, MaxStops)
NextDetector ==
    \/ startDetection
    \/ DetectorStart
    \/ \E hasCamera \in BOOLEAN : stopDetection(hasCamera)
    \/ MicGranted
    \/ MicDenied
    \/ AudioPeak
    \/ Tick
SpecDetector == InitDetector /\ [][NextDetector]_vars

\* the app around the detector: mappings are loaded and edited and speech
\* is switched while gestures are detected
InitApp == InitWith(MaxAppFrames, MaxTicks, MaxStarts, 0)
NextApp ==
    \/ \E r \in StopFrames : processResults(r)
    \/ StabilityTimer
    \/ gestureTimeoutRef.armed /\ Tick
    \/ startDetection
    \/ LoadMappings
    \/ \E id \in {"thumbs-up", "wave"} : toggleMapping(id)
    \/ toggleTTS
SpecApp == InitApp /\ [][NextApp]_vars

\* the storage service and its calls in every order
InitStorage == InitWith(0, 0, 0, 0)
NextStorage ==
    \/ SaveMappings
    \/ GetMappings
    \/ exportData
    \/ importData
SpecStorage == InitStorage /\ [][NextStorage]_vars

\* the classifiers as functions of their arguments
InitClassify == InitWith(0, 0, 0, 0)
NextClassify == Classify
SpecClassify == InitClassify /\ [][NextClassify]_vars

----------------------------------------------------------------------------
(* Claims *)

Events == DOMAIN delivered

\* C1: from Idle, when every processed frame yields the same label and the
\* frames arrive at the frame rate, an event with that label has been
\* delivered by the time a frame of the run is processed after the
\* stability window has elapsed since the run's first frame.
C1_Responsive ==
    (/\ obs.run.label # ""
     /\ obs.run.fromIdle
     /\ obs.run.steady
     /\ obs.lastFrameAt > obs.run.start + StabilityMs)
    => obs.run.sealed >= 1

\* C2: no event is delivered from a pending period that a frame with
\* another label, without a candidate or without hands interrupted before
\* the stability window had elapsed.
C2_InterruptedNeverEmits ==
    \A k \in Events : ~delivered[k].interrupted

\* C3: after an event with label L, no further event is delivered within
\* the cooldown window when every frame since yields L.
C3_Idempotent ==
    \A k \in Events :
        k > 1 =>
            ~(/\ delivered[k].between = {delivered[k - 1].gesture}
              /\ delivered[k].at - delivered[k - 1].at < CooldownMs)

\* C4: two events with the same label, with no stopDetection between them,
\* are never less than the cooldown window apart.
C4_CooldownPerLabel ==
    \A i, j \in Events :
        (/\ i < j
         /\ delivered[i].gesture = delivered[j].gesture
         /\ delivered[i].epoch = delivered[j].epoch)
        => delivered[j].at - delivered[i].at >= CooldownMs

\* C5 as stated: a run of frames that all yield L delivers at most one
\* event with label L (a second one, with the run going on after it, is
\* never seen).
C5_OncePerRun ==
    \A i, j \in Events :
        (/\ i < j
         /\ delivered[i].run # 0
         /\ delivered[i].run = delivered[j].run)
        => ~(obs.run.id = delivered[j].run /\ obs.lastFrameAt >= delivered[j].at)

\* C5 as amended: within a run of frames that all yield L, a further event
\* with label L is delivered only after a cooldown timer has reset the
\* last-emitted label since the previous one.
C5_OncePerReset ==
    \A i, j \in Events :
        (/\ i < j
         /\ delivered[i].run # 0
         /\ delivered[i].run = delivered[j].run)
        => delivered[j].resets > delivered[i].resets

\* C5's case: a held label has been delivered twice within one run
C5_Witness ==
    \E i, j \in Events :
        /\ i < j
        /\ delivered[i].run # 0
        /\ delivered[i].run = delivered[j].run
        /\ obs.run.id = delivered[j].run

\* C6: the label of every delivered event is the label of the most recent
\* frame that produced a candidate.
C6_LastCandidateWins ==
    \A k \in Events : delivered[k].gesture = delivered[k].lastCand

Invalid(h) == h.null \/ Length(h) # LandmarkCount

\* C7: classifyGesture returns null for a hand that has not 21 landmarks,
\* classifyTwoHandGesture returns null when either hand has not 21, and
\* neither throws.
C7_RejectsMalformed ==
    probe.called =>
        /\ Invalid(probe.a) => probe.single = NullGesture
        /\ (Invalid(probe.a) \/ Invalid(probe.b)) => probe.pair = NullGesture

\* C7's case: a hand with more than 21 landmarks, alone and beside a valid
\* hand, has been classified
C7_Witness ==
    /\ probe.called
    /\ ~probe.a.null
    /\ Length(probe.a) > LandmarkCount
    /\ ~Invalid(probe.b)
    /\ probe.single = NullGesture
    /\ probe.pair = NullGesture

TwoHandLabels == {"Clap", "Namaste", "Cross Hands", "Raise Both Hands"}

\* C8: a frame with a hand that has not 21 landmarks does not throw, yields
\* no two-hand candidate, and yields no candidate at all and arms no timer
\* when all its hands are such.
C8_MalformedHarmless ==
    (lastFrame.n > 0 /\ lastFrame.malformed > 0) =>
        /\ ~lastFrame.threw
        /\ lastFrame.detected.gesture \notin TwoHandLabels
        /\ lastFrame.malformed = lastFrame.hands =>
                (lastFrame.detected = NullGesture /\ ~lastFrame.armed)

\* the distance of two palm centres in the image plane (in quarters)
PalmDistance(p, q) == Num(Sq(p.x - q.x) + Sq(p.y - q.y))

\* In the last frame, a two-hand frame, the palms have closed rapidly with
\* respect to the samples `back` samples before the current ones
ClosedSince(back) ==
    /\ lastFrame.n > 0
    /\ lastFrame.ran
    /\ ~lastFrame.threw
    /\ Len(lastFrame.labels) = 2
    /\ LET ah == historyRef[lastFrame.labels[1]]
           bh == historyRef[lastFrame.labels[2]]
       IN  /\ Len(ah) > back
           /\ Len(bh) > back
           /\ LET cur == PalmDistance(ah[Len(ah)].palmCenter, bh[Len(bh)].palmCenter)
                  prev == PalmDistance(ah[Len(ah) - back].palmCenter,
                                       bh[Len(bh) - back].palmCenter)
              IN  /\ DiffGt(prev, cur, PalmScale * ClapCloseDelta)
                  /\ DistLt(cur, PalmScale * ClapPalmDist)

\* the palms have closed since the sample the code reads (ah[length - 5])
\* and since the sample five frames before the current one
RapidClosure == ClosedSince(ClapPrevOffset - 1) /\ ClosedSince(ClapPrevOffset)

\* C9: when the microphone is not available (start() of the attached
\* detector has failed and no transient was ever reported), a two-hand frame
\* with rapid palm closure yields a Clap candidate.
C9_ClapWithoutMicrophone ==
    (RapidClosure /\ lastFrame.micFailed /\ lastFrame.lastAudio = 0)
    => lastFrame.detected.gesture = "Clap"

\* C10: with no audio detector attached, a two-hand frame with rapid palm
\* closure (0.30 five samples ago, 0.08 now) yields a Clap candidate.
C10_ClapVisionOnly ==
    (RapidClosure /\ lastFrame.audioRef = 0)
    => lastFrame.detected.gesture = "Clap"

\* the two probed hands are valid
BothValid == probe.called /\ ~Invalid(probe.a) /\ ~Invalid(probe.b)

\* whether a two-hand rule of the classifier matches the two hands
Matches005(rule, a, b) ==
    CASE rule = "Clap" -> ClapMatch005(a, b)
      [] rule = "Namaste" -> NamasteMatch005(a, b)
      [] rule = "Cross Hands" -> CrossMatch005(a, b)
      [] rule = "Raise Both Hands" -> RaiseMatch005(a, b)

\* the first rule in the order that matches, "" when none does
FirstMatch(order, a, b) ==
    LET hits == {i \in 1..Len(order) : Matches005(order[i], a, b)}
    IN  IF hits = {} THEN ""
        ELSE order[CHOOSE i \in hits : \A j \in hits : i <= j]

\* the conditions of Cross Hands and Raise Both Hands in processResults
HookCross(a, b) == At(a, 0).x > At(b, 0).x + CrossMargin
HookRaise(a, b) ==
    /\ At(a, 0).y < At(a, 9).y - RaiseMargin
    /\ At(b, 0).y < At(b, 9).y - RaiseMargin

\* C12 as stated: the candidate of two valid hands is the first rule that
\* matches in the order Namaste, Clap, Cross Hands, Raise Both Hands.
C12_NamasteFirst ==
    BothValid =>
        probe.pair005.gesture =
            FirstMatch(<<"Namaste", "Clap", "Cross Hands", "Raise Both Hands">>,
                       probe.a, probe.b)

\* C12 as amended: the candidate of two valid hands is the first rule that
\* matches in the order Clap, Namaste, Cross Hands, Raise Both Hands, one
\* candidate at most; and in processResults a frame that satisfies Cross
\* Hands and Raise Both Hands yields Cross Hands.
C12_ClapFirst ==
    BothValid =>
        /\ probe.pair005.gesture =
            FirstMatch(<<"Clap", "Namaste", "Cross Hands", "Raise Both Hands">>,
                       probe.a, probe.b)
        /\ (HookCross(probe.a, probe.b) /\ HookRaise(probe.a, probe.b))
                => probe.hook.gesture = "Cross Hands"

\* C12's case: two hands that satisfy Clap and Namaste have been classified
C12_Witness ==
    /\ BothValid
    /\ ClapMatch005(probe.a, probe.b)
    /\ NamasteMatch005(probe.a, probe.b)
    /\ probe.pair005.gesture = "Clap"

\* palms, wrists and middle fingertips closer than the thresholds of the
\* Namaste rule of processResults
NamasteClose(a, b) ==
    /\ DistLt(PalmDistance(palmCenter(a), palmCenter(b)), PalmScale * NamastePalmDist)
    /\ DistLt(calculateDistance(At(a, 0), At(b, 0)), NamasteWristDist)
    /\ DistLt(calculateDistance(At(a, 12), At(b, 12)), NamasteTipDist)

\* C13: a frame of two valid hands whose palms, wrists and middle fingertips
\* are closer than 0.14, 0.18 and 0.08, with no history for a Clap, yields
\* Namaste.
C13_NamasteByProximity ==
    (BothValid /\ ~probe.hookThrew /\ NamasteClose(probe.a, probe.b))
    => probe.hook.gesture = "Namaste"

\* the frame's hands are labelled "Left" and "Right", in either order
Labelled ==
    /\ probe.handedness.present
    /\ probe.handedness.labels \in {<<"Left", "Right">>, <<"Right", "Left">>}

\* the wrist x of the hand reported under the label
WristOf(label) ==
    IF probe.handedness.labels[1] = label THEN At(probe.a, 0).x
    ELSE At(probe.b, 0).x

\* C14: with both hands labelled, Cross Hands is the candidate only if the
\* hand reported "Right" is left of the hand reported "Left", it is the
\* candidate if it is so by more than the margin, and it does not depend on
\* the order in which the two hands are listed.
C14_CrossIsInversion ==
    (BothValid /\ ~probe.hookThrew /\ Labelled) =>
        /\ probe.hook.gesture = "Cross Hands" => WristOf("Right") < WristOf("Left")
        /\ WristOf("Right") + CrossMargin < WristOf("Left")
                => probe.hook.gesture = "Cross Hands"
        /\ probe.hook.gesture = "Cross Hands" <=> probe.swapped.gesture = "Cross Hands"

\* every digit curled: each tip at or below its proximal joint
AllCurled(h) ==
    LET tips == <<4, 8, 12, 16, 20>>
        joints == <<2, 6, 10, 14, 18>>
    IN  \A k \in 1..5 : At(h, tips[k]).y >= At(h, joints[k]).y

\* the tips gathered at the palm, in hand widths: their mean distance to
\* middle_mcp below 0.6 and their largest mutual distance below 0.45
Clustered(h) ==
    LET tips == <<4, 8, 12, 16, 20>>
        widthSq == calculateDistance(At(h, 5), At(h, 17)).v
        toPalm == [k \in 1..5 |->
            Sqrt(calculateDistance(At(h, tips[k]), At(h, 9)).v)]
    IN  /\ widthSq > 0
        /\ SumOf(toPalm) < Sqrt(9 * widthSq)
        /\ \A i, j \in 1..5 :
            400 * calculateDistance(At(h, tips[i]), At(h, tips[j])).v < 81 * widthSq

\* the probed hand is a closed hand in the sense of C16
ClosedHand == probe.called /\ ~Invalid(probe.a) /\ AllCurled(probe.a) /\ Clustered(probe.a)

\* C16: a valid hand with all five digits curled and the tips clustered
\* within the normalised thresholds is classified Fist, and so is the same
\* hand with every coordinate multiplied by a positive factor.
C16_FistScaleInvariant ==
    ClosedHand =>
        /\ probe.single005.gesture = "Fist"
        /\ probe.scaled005.gesture = "Fist"

\* C16's case: a closed hand has been classified at a larger scale
C16_Witness == ClosedHand /\ probe.k > 1 /\ probe.scaled005.gesture = "Fist"

\* thumb and four fingers extended, as both revisions of classifyGesture
\* count them
FiveExtended(h) ==
    /\ isThumbExtended(h)
    /\ Count(isFingerExtended(h, <<8, 12, 16, 20>>, <<6, 10, 14, 18>>)) = 4

\* the probed hand is valid and has five digits extended
OpenHand == probe.called /\ ~Invalid(probe.a) /\ FiveExtended(probe.a)

PalmAway(h) ==
    LET n == computePalmNormalFrom(h)
    IN  n.z < 0 /\ 100 * Sq(n.z) > 9 * n.sq

\* the probed hand is open, on the right half, with its palm turned away
BackOfHand == OpenHand /\ At(probe.a, 0).x >= HalfFrame /\ PalmAway(probe.a)

\* C20 as stated: a valid hand with five digits extended, its wrist on the
\* right half and a palm normal z below -0.3 is classified Backhand.
C20_Backhand == BackOfHand => probe.single005.gesture = "Backhand"

\* C20 as amended: such a hand is classified Backhand unless the Fist rule
\* matches it, and Fist if that rule does.
C20_BackhandUnlessFist ==
    BackOfHand =>
        probe.single005.gesture =
            (IF FistRule(probe.a) THEN "Fist" ELSE "Backhand")

\* C20's case: the back of an open hand has been classified Backhand
C20_Witness ==
    /\ BackOfHand
    /\ ~FistRule(probe.a)
    /\ probe.single005.gesture = "Backhand"

\* the hands of the last processed frame, as processResults paired them,
\* and the history of the k-th of them
LastEntries == handsByLabel(lastFrame.results)
HistoryOf(k) == historyRef[LastEntries[k].label]

\* what the static classifier says of each hand of the last frame, and what
\* one pass of the single-hand loop says of it
StaticGuesses ==
    [k \in 1..Len(LastEntries) |-> classifyGesture(LastEntries[k].lm, lastFrame.at)]
LoopGuesses ==
    [k \in 1..Len(LastEntries) |->
        SingleHand(LastEntries[k].lm, HistoryOf(k), lastFrame.at)]

\* the first guess of gs that is one, in frame order
FirstOf(gs) ==
    LET ks == {k \in 1..Len(gs) : gs[k] # NullGesture}
    IN  IF ks = {} THEN NullGesture
        ELSE gs[CHOOSE k \in ks : \A j \in ks : k <= j]

\* the last frame held two hands and none of the two-hand rules matched
TwoHandFallthrough ==
    /\ lastFrame.n > 0 /\ lastFrame.ran /\ ~lastFrame.threw
    /\ lastFrame.hands = 2
    /\ TwoHandRules(LastEntries, historyRef, lastFrame.at, lastFrame.audioRef,
                    lastFrame.lastAudio) = NullGesture

\* C15 as stated: when no two-hand rule matches, the frame's candidate is the
\* static classifier's guess for the first hand, in frame order, for which
\* it has one.
C15_StaticOfFirst ==
    TwoHandFallthrough => lastFrame.detected = FirstOf(StaticGuesses)

\* C15 as amended: when no two-hand rule matches, the frame's candidate is
\* that of the first hand, in frame order, for which the static classifier
\* has a guess, and it is that guess unless it is Open Palm and the hand's
\* history makes it Wave or Raise Hand; one candidate at most.
C15_UpgradedOfFirst ==
    TwoHandFallthrough => lastFrame.detected = FirstOf(LoopGuesses)

\* C15's case: a two-hand frame that matched no two-hand rule got its
\* candidate from its first hand's history
C15_Witness ==
    /\ TwoHandFallthrough
    /\ StaticGuesses[1].gesture = "Open Palm"
    /\ lastFrame.detected.gesture = "Raise Hand"

\* the wrist x of the samples, the number of times their direction turns,
\* and the width of their range
WristXs(samples) == [i \in 1..Len(samples) |-> samples[i].wrist.x]
Turns(xs) ==
    Cardinality({i \in 3..Len(xs) :
        \/ xs[i] > xs[i - 1] /\ xs[i - 1] < xs[i - 2]
        \/ xs[i] < xs[i - 1] /\ xs[i - 1] > xs[i - 2]})
Swing(xs) ==
    IF Len(xs) = 0 THEN 0
    ELSE CHOOSE d \in {xs[i] - xs[j] : i, j \in 1..Len(xs)} :
            \A i, j \in 1..Len(xs) : d >= xs[i] - xs[j]

\* the last frame held one hand, statically an Open Palm, whose wrist has
\* turned at least twice over more than 0.06
WavingHand ==
    /\ lastFrame.n > 0 /\ lastFrame.ran /\ ~lastFrame.threw
    /\ lastFrame.hands = 1
    /\ StaticGuesses[1].gesture = "Open Palm"
    /\ Turns(WristXs(HistoryOf(1))) >= 2
    /\ Swing(WristXs(HistoryOf(1))) > 6

\* C17: a single-hand frame whose static guess is Open Palm and whose
\* history holds at least 2 reversals of the wrist x with an amplitude above
\* 0.06 yields Wave, not Open Palm.
C17_WaveUpgrade == WavingHand => lastFrame.detected.gesture = "Wave"

\* C17's case: a waving hand has been processed
C17_Witness == WavingHand /\ lastFrame.detected.gesture = "Wave"

\* the samples are at least n, and the last RaiseHandWindow of them (or all,
\* when fewer) have the wrist above y = 0.38
HighFor(samples, n) ==
    /\ Len(samples) >= n
    /\ \A i \in 1..Len(samples) :
        i > Len(samples) - RaiseHandWindow => samples[i].wrist.y < RaiseHandY

\* C18 as stated: Raise Hand is the candidate only when the history of a
\* hand of the frame holds at least 6 samples and the last 6 all have the
\* wrist above y = 0.38.
C18_SixHigh ==
    lastFrame.detected.gesture = "Raise Hand" =>
        \E k \in 1..Len(LastEntries) : HighFor(HistoryOf(k), 6)

\* C18 as amended: Raise Hand is the candidate only when a hand of the frame
\* is statically an Open Palm and its history holds at least 4 samples of
\* which the last 6, or all when there are fewer, have the wrist above
\* y = 0.38.
C18_FourHigh ==
    lastFrame.detected.gesture = "Raise Hand" =>
        \E k \in 1..Len(LastEntries) :
            /\ StaticGuesses[k].gesture = "Open Palm"
            /\ HighFor(HistoryOf(k), 4)

\* C18's case: Raise Hand with a history longer than the window, an older
\* sample of which was low
C18_Witness ==
    /\ lastFrame.detected.gesture = "Raise Hand"
    /\ \E k \in 1..Len(LastEntries) :
        /\ Len(HistoryOf(k)) > RaiseHandWindow
        /\ \E i \in 1..Len(HistoryOf(k)) : HistoryOf(k)[i].wrist.y >= RaiseHandY

\* by the strict test, the index finger is the only extended digit
IndexAlone(h) ==
    /\ ~isThumbExtended(h)
    /\ isFingerExtended(h, <<8, 12, 16, 20>>, <<6, 10, 14, 18>>)
        = <<TRUE, FALSE, FALSE, FALSE>>

\* the wrist-to-index-tip distance lies in [0.03, 0.5]
SaneIndex(h) ==
    LET d == calculateDistance(At(h, 0), At(h, 8))
    IN  ~DistLt(d, PointMinLen) /\ ~DistGt(d, PointMaxLen)

\* the probed hand points, in the sense of C21
PointingHand ==
    probe.called /\ ~Invalid(probe.a) /\ IndexAlone(probe.a) /\ SaneIndex(probe.a)

\* C21: a valid hand whose index finger is, by the strict test, the only
\* extended digit and whose wrist-to-index-tip distance lies in [0.03, 0.5]
\* is classified Pointing, however the other three fingers are curled.
C21_Pointing == PointingHand => probe.single.gesture = "Pointing"

\* C22: no two Gesture Events are delivered between the same two
\* consecutive frames, and every event carries the label, confidence and
\* timestamp of the candidate of a frame that armed the stability timer.
C22_OneEventPerFrame ==
    /\ \A i, j \in Events : i # j => delivered[i].frame # delivered[j].frame
    /\ \A i \in Events :
        LET e == delivered[i]
        IN  /\ e.armedBy.n \in 1..e.frame
            /\ e.armedBy.detected # NullGesture
            /\ e.gesture = e.armedBy.detected.gesture
            /\ e.confidence = e.armedBy.detected.confidence
            /\ e.timestamp = e.armedBy.detected.timestamp

\* C22's case: two events have been delivered, armed by different frames
C22_Witness ==
    \E i, j \in Events :
        /\ delivered[i].frame < delivered[j].frame
        /\ delivered[i].armedBy.n < delivered[j].armedBy.n

\* C23: every delivered Gesture Event carries one of the ten labels of
\* GestureType.
C23_BuiltInLabels == \A i \in Events : delivered[i].gesture \in GestureType

\* a frame without hands is being processed
NoHandsStep == lastFrame'.n = lastFrame.n + 1 /\ lastFrame'.hands = 0

\* C24: processing a frame with no hands appends no history sample, leaves
\* the stability timer, the cooldown timers and the last-emitted label as
\* they are, delivers nothing and produces no candidate.
C24_NoHandsNoOp ==
    [][NoHandsStep =>
        /\ historyRef' = historyRef
        /\ gestureTimeoutRef' = gestureTimeoutRef
        /\ resetTimers' = resetTimers
        /\ lastGestureRef' = lastGestureRef
        /\ delivered' = delivered
        /\ lastFrame'.detected = NullGesture
        /\ ~lastFrame'.armed]_vars

\* C24's case: a frame without hands has been processed while a candidate
\* was pending and a label was in its cooldown
C24_Witness ==
    /\ lastFrame.n > 0 /\ lastFrame.hands = 0
    /\ gestureTimeoutRef.armed
    /\ lastGestureRef # ""
    /\ \E l \in LabelKeys : historyRef[l] # <<>>

\* a frame with a hand has been processed at time t
SeenAt(t) ==
    \E l \in LabelKeys : \E i \in 1..Len(historyRef[l]) : historyRef[l][i].ts = t

\* C25: a label that is suppressed has a reset pending that is due within
\* the cooldown window; and when, after the last event, with label L, every
\* frame has yielded L and frames have been processed at the frame rate from
\* the end of its cooldown window over a whole stability window, L has been
\* delivered again.
C25_CooldownExpires ==
    /\ lastGestureRef # "" =>
        \E due \in resetTimers : due <= now + CooldownMs
    /\ \A k \in Events :
        LET e == delivered[k]
            r == e.at + CooldownMs
        IN  ~(/\ k = Len(delivered)
              /\ obs.sinceEmit = {e.gesture}
              /\ SeenAt(r) /\ SeenAt(r + TickMs) /\ SeenAt(r + StabilityMs)
              /\ now >= r + StabilityMs)

\* C26: no event is delivered whose candidate was armed before a
\* stopDetection that ran since; and as long as no frame has been processed
\* since the last stopDetection, no candidate is pending, the last-emitted
\* label is none and no event has been delivered since.
C26_StopDiscardsPending ==
    /\ \A i \in Events : delivered[i].armedBy.epoch = delivered[i].epoch
    /\ (obs.epoch > 0 /\ lastFrame.epoch < obs.epoch) =>
        /\ ~gestureTimeoutRef.armed
        /\ lastGestureRef = ""
        /\ \A i \in Events : delivered[i].epoch < obs.epoch

\* C26's case: stopDetection has run while a candidate was pending, and its
\* stability window has passed without a frame
C26_Witness ==
    /\ obs.epoch > 0 /\ lastFrame.epoch < obs.epoch
    /\ obs.armedBy.n = lastFrame.n
    /\ \A i \in Events : delivered[i].armedBy.n < lastFrame.n
    /\ now >= gestureTimeoutRef.due
    /\ gestureTimeoutRef.due = lastFrame.at + StabilityMs

\* C27: the one candidate that is pending is the candidate of the last
\* frame that armed the stability timer, due a stability window after that
\* frame; every event is the candidate of the last frame that armed before
\* it, and the arming frames of the events are all different: an armed
\* candidate that another one replaced is never delivered.
C27_SingleDebounce ==
    /\ gestureTimeoutRef.armed =>
        /\ obs.armedBy.n \in 1..lastFrame.n
        /\ gestureTimeoutRef.detected = obs.armedBy.detected
        /\ gestureTimeoutRef.due = obs.armedBy.detected.timestamp + StabilityMs
    /\ \A i, j \in Events :
        i < j => delivered[i].armedBy.n < delivered[j].armedBy.n
    /\ \A i \in Events :
        /\ delivered[i].gesture = delivered[i].armedBy.detected.gesture
        /\ delivered[i].at = delivered[i].armedBy.detected.timestamp + StabilityMs

\* C27's case: a hand armed Thumbs-Up, another hand armed Stop before it was
\* delivered, and Stop alone has been delivered
C27_Witness ==
    /\ Len(delivered) = 1
    /\ delivered[1].gesture = "Stop"
    /\ delivered[1].armedBy.n = 2
    /\ delivered[1].between = {"Thumbs-Up", "Stop"}

\* no history holds more than 30 samples, and the timestamps of a history
\* never decrease
RingBounded ==
    \A l \in LabelKeys :
        /\ Len(historyRef[l]) <= HistoryCap
        /\ \A i, j \in 1..Len(historyRef[l]) :
            i < j => historyRef[l][i].ts <= historyRef[l][j].ts

\* a frame with hands is being processed: every label it holds gets one
\* sample, stamped now, at the end of its history, behind the samples it
\* held, of which the oldest is gone if there were 30
RingStep ==
    (lastFrame'.n = lastFrame.n + 1 /\ lastFrame'.ran /\ ~lastFrame'.threw) =>
        \A k \in 1..Len(lastFrame'.labels) :
            LET old == historyRef[lastFrame'.labels[k]]
                new == historyRef'[lastFrame'.labels[k]]
                kept == IF Len(old) = HistoryCap THEN Tail(old) ELSE old
            IN  /\ Len(new) = Len(kept) + 1
                /\ SubSeq(new, 1, Len(kept)) = kept
                /\ new[Len(new)].ts = now

\* C28: every history holds at most 30 samples; a frame appends exactly one
\* sample for each label it holds, and when the history is full the oldest
\* sample is the one that goes, so that the timestamps stay in order.
C28_HistoryRing == []RingBounded /\ [][RingStep]_vars

\* C28's case: a full history has lost its oldest sample, and holds samples
\* of different times
C28_Witness ==
    /\ lastFrame.n > HistoryCap
    /\ \E l \in LabelKeys :
        /\ Len(historyRef[l]) = HistoryCap
        /\ historyRef[l][1].ts < historyRef[l][HistoryCap].ts

\* a step keeps every history that the frame being processed does not hold
\* a hand for; a step that processes no frame (a timer, stopDetection,
\* startDetection) keeps all of them
HistoryKept ==
    IF lastFrame'.n = lastFrame.n + 1
    THEN \A l \in LabelKeys :
            (\A k \in 1..Len(lastFrame'.labels) : lastFrame'.labels[k] # l) =>
                historyRef'[l] = historyRef[l]
    ELSE historyRef' = historyRef

\* after a stop, a single open hand whose whole history, the samples of
\* before the stop included, holds a wave
WavingAcrossStop == WavingHand /\ lastFrame.epoch >= 1

\* C29: a frame leaves the history of every label it does not hold as it
\* was, and stopDetection and startDetection leave all histories as they
\* were; the samples of before an absence or a stop still count when the
\* label is seen again: they make a wave.
C29_HistoryNeverPurged ==
    /\ [](WavingAcrossStop => lastFrame.detected.gesture = "Wave")
    /\ [][HistoryKept]_vars

\* C29's case: the fifth frame yields Wave from the four samples of Right,
\* of which the first is older than the frame that held Left alone and than
\* an event delivered before detection was stopped
C29_Witness ==
    /\ lastFrame.n = 5 /\ lastFrame.ran /\ ~lastFrame.threw
    /\ lastFrame.epoch >= 1
    /\ lastFrame.labels = <<"Right">>
    /\ lastFrame.detected.gesture = "Wave"
    /\ Len(historyRef["Right"]) = 4
    /\ Len(historyRef["Left"]) = 1
    /\ historyRef["Right"][1].ts < historyRef["Left"][1].ts
    /\ \E i \in 1..Len(delivered) :
        /\ delivered[i].epoch = 0
        /\ historyRef["Right"][1].ts < delivered[i].at

\* a step that stores a new audio clap timestamp changes nothing else of
\* the hook: no history, no pending candidate, no cooldown timer, not the
\* last emitted label, no event, no frame
ClapCallbackStep ==
    lastAudioClapRef' # lastAudioClapRef =>
        /\ lastAudioClapRef' = now
        /\ UNCHANGED <<now, isDetecting, cameraRunning, lastGestureRef,
                       gestureTimeoutRef, resetTimers, historyRef, audioClapRef,
                       delivered, lastFrame>>

\* a step that processes a frame reads the audio clap timestamp and leaves
\* it as it was
FrameReadsClap ==
    lastFrame' # lastFrame =>
        /\ lastAudioClapRef' = lastAudioClapRef
        /\ lastFrame'.lastAudio = lastAudioClapRef

\* C30: the audio clap callback changes the last audio clap timestamp and
\* nothing else (no history, no pending candidate, no timer, not the last
\* emitted label, no event), and processing a frame only reads that
\* timestamp, in every interleaving of frames, timers and callbacks.
C30_ClapCallbackIsolated == [][ClapCallbackStep /\ FrameReadsClap]_vars

\* C30's case: while a candidate is pending, a clap is heard later than the
\* frame that armed it, and a frame with two hands then reads the clap's
\* timestamp; the candidate is still pending
C30_Witness ==
    /\ gestureTimeoutRef.armed
    /\ lastAudioClapRef > gestureTimeoutRef.due - StabilityMs
    /\ lastFrame.hands = 2
    /\ obs.armedBy.n < lastFrame.n
    /\ lastFrame.lastAudio = lastAudioClapRef

\* C31: a processed frame with two hand observations keeps both hands,
\* whatever the handedness: it holds two labels, each of which has got a
\* sample of this frame.
C31_BothHandsRetained ==
    (lastFrame.ran /\ ~lastFrame.threw /\ lastFrame.hands = 2) =>
        /\ Len(lastFrame.labels) = 2
        /\ \A k \in 1..Len(lastFrame.labels) :
            LET h == historyRef[lastFrame.labels[k]]
            IN  Len(h) > 0 /\ h[Len(h)].ts = lastFrame.at

\* the detectors on which stop() has returned: stopDetection stops the
\* detector it holds and lets go of it, and startDetection holds a new one
Stopped == {i \in 1..Len(detectors) : i # audioClapRef}

\* no stopped detector runs
StoppedNotRunning == \A i \in Stopped : ~detectors[i].running

\* while detection is off, no step writes the audio clap timestamp
SilentWhenStopped ==
    (~isDetecting /\ ~isDetecting') => lastAudioClapRef' = lastAudioClapRef

\* C32: once stop() has returned the detector is not running and calls back
\* no more, also when start() was still waiting for the microphone; after
\* stopDetection the audio clap timestamp is not written again.
C32_StopIsFinal == []StoppedNotRunning /\ [][SilentWhenStopped]_vars

\* C33: a detector has at most one microphone stream open and at most one
\* process loop scheduled, however the calls of start() interleave.
C33_OneLoop ==
    \A i \in 1..Len(detectors) :
        detectors[i].streams <= 1 /\ detectors[i].loops <= 1

\* a step changes the time of a detector's last callback only when more
\* than the cooldown has passed since; the callback stores the time in the
\* hook
CooldownStep ==
    \A i \in 1..Len(detectors) :
        detectors'[i].lastClapAt # detectors[i].lastClapAt =>
            /\ now - detectors[i].lastClapAt > AudioCooldownMs
            /\ detectors'[i].lastClapAt = now
            /\ lastAudioClapRef' = now

\* the last two callbacks of a detector are more than the cooldown apart
ClapsApart ==
    \A i \in 1..Len(detectors) :
        detectors[i].prevClapAt # 0 =>
            detectors[i].lastClapAt - detectors[i].prevClapAt > AudioCooldownMs

\* C34: two successive clap callbacks of a detector are more than 300 ms
\* apart; a peak within the cooldown calls nothing back and does not move
\* the time from which the cooldown counts.
C34_ClapCooldown == []ClapsApart /\ [][CooldownStep]_vars

\* C34's case: a running detector has called back twice, and time has
\* passed into the cooldown of the second callback
C34_Witness ==
    \E i \in 1..Len(detectors) :
        /\ detectors[i].running
        /\ detectors[i].prevClapAt # 0
        /\ now > detectors[i].lastClapAt
        /\ now - detectors[i].lastClapAt <= AudioCooldownMs

\* C35: whenever an event is delivered whose label has an enabled mapping in
\* the mappings of that moment, and speech is enabled, the text of that
\* mapping is spoken.
C35_SpeaksCurrentMapping ==
    \A i \in 1..Len(delivered) :
        delivered[i].mapped # "" => delivered[i].said = delivered[i].mapped

\* a getGestureMappings that follows a saveGestureMappings of a list with
\* pairwise distinct ids
GetAfterSave ==
    /\ db.last.op = "get"
    /\ db.last.prev.op = "save"
    /\ KeysDistinct(db.last.prev.arg)

\* an importData that follows the exportData whose data it takes
ImportAfterExport ==
    /\ db.last.op = "import"
    /\ db.last.prev.op = "export"

\* C36: after saveGestureMappings(list), list having pairwise distinct ids,
\* getGestureMappings resolves to exactly the mappings of the list; and
\* exportData followed by importData leaves the stored mappings as they
\* were.
C36_RoundTrip ==
    /\ GetAfterSave =>
            /\ Range(db.last.result) = Range(db.last.prev.arg)
            /\ Len(db.last.result) = Len(db.last.prev.arg)
    /\ ImportAfterExport => db.store = db.last.prev.before

\* C36, for the lists and stores it holds for: saveGestureMappings(list),
\* list having pairwise distinct ids, replaces what was stored by the
\* mappings of the list; getGestureMappings then resolves to them, in the
\* order of their ids, unless the list is empty: then it stores the default
\* mappings and resolves to these.  exportData followed by importData
\* leaves a store that was not empty as it was, and an empty one with the
\* default mappings.
C36_RoundTripNonEmpty ==
    /\ (db.last.op = "save" /\ KeysDistinct(db.last.arg)) =>
            /\ ~db.last.rejected
            /\ db.store = ByKey(Range(db.last.arg))
    /\ GetAfterSave =>
            IF db.last.prev.arg = <<>>
            THEN /\ db.last.result = defaultGestureMappings
                 /\ db.store = ByKey(Range(defaultGestureMappings))
            ELSE /\ db.last.result = ByKey(Range(db.last.prev.arg))
                 /\ db.store = db.last.result
    /\ ImportAfterExport =>
            db.store = IF db.last.prev.before = <<>>
                       THEN ByKey(Range(defaultGestureMappings))
                       ELSE db.last.prev.before

\* C36's case: a list of two mappings, not in the order of their ids, has
\* been saved over a store that held another mapping, and read back
C36_Witness ==
    /\ GetAfterSave
    /\ Len(db.last.prev.arg) = 2
    /\ db.last.prev.arg # db.last.result
    /\ db.last.prev.before # <<>>
    /\ \E r \in Range(db.last.prev.before) : r \notin Range(db.last.prev.arg)

====
